---- MODULE Spec2Model ----
(***************************************************************************)
(* Document processing and knowledge indexing pipeline of vendorIQ.ai.     *)
(*                                                                         *)
(* Specifications sharing this module:                                      *)
(*   SpecStatus  one InvoiceProcessingStatus record driven by any sequence *)
(*               of its transition methods (invoice_status.py);            *)
(*   Spec        one worker calling process_vendor_invoices again and      *)
(*               again, one step per I/O point, with document uploads and  *)
(*               the chat service's sync between the calls                 *)
(*               (invoice_processor.py, db.py, chat.py);                   *)
(*   SpecRace    two workers that each run process_vendor_invoices once on *)
(*               the same vendor folder, interleaved at their I/O points;  *)
(*   SpecRetry   retry_failed_invoices calls over the file based status    *)
(*               store, each followed by the pipeline run of the batch it  *)
(*               selected (retry_service.py);                              *)
(*   SpecSave    _upload_master_to_drive called again and again on one     *)
(*               folder, with every outcome of its Drive requests;         *)
(*   SpecIndex   one user of the chat service indexing record lists of a   *)
(*               vendor again and again (orchestrator.py, retriever.py);   *)
(*   SpecSync    one user syncing again and again (chat.py);               *)
(*   SpecTenants two users indexing, syncing and purging on the one        *)
(*               Chroma collection (chat.py, retriever.py);                *)
(*   SpecStore   two callers of ProcessingStatusStore.save_status,         *)
(*               interleaved at their file operations (invoice_status.py); *)
(*   SpecScope   two users, one identifier a prefix of the other, saving   *)
(*               statuses, retrying, clearing and reading the statuses     *)
(*               (retry_service.py);                                       *)
(*   SpecExtract the extraction endpoint and its calls of the model, with  *)
(*               FairExtract for termination (gemini_client.py);           *)
(*   SpecAnalytics get_analytics over collections of invoice metadata      *)
(*               (orchestrator.py, retriever.py);                          *)
(*   SpecPurge   two users whose documents complete OCR, are synced and    *)
(*               purged (chat.py, db.py);                                  *)
(*   SpecCatchUp one user whose documents complete OCR and are synced,     *)
(*               with FairCatchUp for syncs that keep succeeding.          *)
(* A specification leaves the variables of the others at their initial     *)
(* values.                                                                 *)
(* Timestamps, log lines and message texts are left out: no transition     *)
(* reads them.                                                             *)
(***************************************************************************)
EXTENDS Integers, Sequences, FiniteSets, TLC

(***************************************************************************)
(* Bounds of the model.                                                    *)
(***************************************************************************)
\* cap on ocr_attempt_count / chat_attempt_count of the record in SpecStatus
MaxAttempts == 3
\* cap on the length of the error log of the record in SpecStatus
MaxErrors == 2
\* largest retry ceiling (max_attempts / max_ocr_retries) that is tried
MaxCeiling == 3

\* most attempts a status record read from the status store has behind it
MaxStoredAttempts == 2

\* workers that run process_vendor_invoices (both of them in SpecRace)
Procs == {1, 2}
\* the Drive file ids of the invoices of the one user and vendor in the model
Files == {"f1", "f2"}
\* longest candidate list handed to one process_vendor_invoices run
MaxBatch == 2
\* longest record list found in master.json before the first run
MaxInitRecords == 2
\* cap on the number of files named master.json in the invoice folder
MaxMasterFiles == 1
\* most files named master.json the folder holds in SpecSave
MaxFolderFiles == 2

VARIABLES
    st,         \* SpecStatus: the InvoiceProcessingStatus record under test
    mongo,      \* documents collection: Drive file id -> document fields
    drive,      \* invoice folder: the contents of its files named master.json
    run,        \* per worker: the locals of its process_vendor_invoices run
    vstore,     \* chat service: the Chroma collection, stored id -> entry
    lastSync,   \* chat service: outcome of the latest POST /sync
    statusStore,\* processing_status files: Drive file id -> status record
    ceilings,   \* maxOcrRetries / maxChatRetries the retry caller sends
    lastRetry,  \* what the latest retry_failed_invoices call selected
    redriven,   \* per file: how often a retry handed it to the pipeline
    lastIndex,  \* chat service: what the latest indexing operation did
    statusFiles,\* processing_status directory: file path -> file content
    saver,      \* per caller: the locals of its save_status call
    lastCall,   \* what the latest call on the status directory was given and did
    llm,        \* extraction endpoint: the locals of its extract_invoice call
    analytics   \* chat service: the latest get_analytics call and its report

vars == <<st, mongo, drive, run, vstore, lastSync,
          statusStore, ceilings, lastRetry, redriven, lastIndex,
          statusFiles, saver, lastCall, llm, analytics>>

retryVars == <<statusStore, ceilings, lastRetry, redriven>>

storeVars == <<statusFiles, saver, lastCall>>

otherVars == <<lastIndex, storeVars, llm, analytics>>

(***************************************************************************)
(* InvoiceProcessingStatus (invoice_status.py)                             *)
(***************************************************************************)
StatusNames ==
    {"PENDING", "DOWNLOADING", "OCR_PROCESSING", "OCR_SUCCESS", "OCR_FAILED",
     "CHAT_INDEXING", "CHAT_FAILED", "COMPLETED"}

\* a freshly constructed record: the field defaults of the model class
InvoiceProcessingStatus ==
    [status |-> "PENDING", ocr_attempt_count |-> 0, chat_attempt_count |-> 0,
     errors |-> <<>>]

InvoiceProcessingError(phase, retryable) ==
    [phase |-> phase, retryable |-> retryable]

\* mutant of add_error: an entry of the same phase at the end of the list is
\* overwritten
add_errorOverwriteSamePhase(s, phase, retryable) ==
    IF Len(s.errors) > 0 /\ s.errors[Len(s.errors)].phase = phase
    THEN [s EXCEPT !.errors[Len(s.errors)] = InvoiceProcessingError(phase, retryable)]
    ELSE [s EXCEPT !.errors = Append(@, InvoiceProcessingError(phase, retryable))]

add_error(s, phase, retryable) ==
    [s EXCEPT !.errors = Append(@, InvoiceProcessingError(phase, retryable))]

\* mutant of is_retryable: looks at the whole error history, not the last entry
is_retryable_whole_history(s) ==
    IF s.status \notin {"OCR_FAILED", "CHAT_FAILED"} THEN FALSE
    ELSE \A i \in 1..Len(s.errors) : s.errors[i].retryable

is_retryable(s) ==
    IF s.status \notin {"OCR_FAILED", "CHAT_FAILED"} THEN FALSE
    ELSE IF Len(s.errors) > 0 THEN s.errors[Len(s.errors)].retryable
    ELSE TRUE

should_retry_ocr(s, max_attempts) ==
    /\ s.status = "OCR_FAILED"
    /\ s.ocr_attempt_count < max_attempts
    /\ is_retryable(s)

should_retry_chat(s, max_attempts) ==
    /\ s.status = "CHAT_FAILED"
    /\ s.chat_attempt_count < max_attempts
    /\ is_retryable(s)

mark_downloading(s) == [s EXCEPT !.status = "DOWNLOADING"]

\* mutant of mark_ocr_processing: a failed record that is retried keeps
\* the attempt count of its first attempt
mark_ocr_processingFirstOnly(s) ==
    [s EXCEPT !.status = "OCR_PROCESSING",
              !.ocr_attempt_count = IF s.status = "OCR_FAILED" THEN @ ELSE @ + 1]

mark_ocr_processing(s) ==
    [s EXCEPT !.status = "OCR_PROCESSING", !.ocr_attempt_count = @ + 1]

mark_ocr_success(s) == [s EXCEPT !.status = "OCR_SUCCESS"]

mark_ocr_failed(s, retryable) ==
    add_error([s EXCEPT !.status = "OCR_FAILED"], "ocr", retryable)

mark_chat_indexing(s) ==
    [s EXCEPT !.status = "CHAT_INDEXING", !.chat_attempt_count = @ + 1]

mark_chat_failed(s, retryable) ==
    add_error([s EXCEPT !.status = "CHAT_FAILED"], "chat", retryable)

mark_completed(s) == [s EXCEPT !.status = "COMPLETED"]

(***************************************************************************)
(* documents collection (ocr-extraction-service/app/db.py)                 *)
(***************************************************************************)
\* A document keeps the two fields the handlers read, ocrStatus and indexed;
\* masterJsonPath, ocrError and the date fields are written and never read.
\* find_one returns None: no document for (userId, driveFileId)
NoDocument == [ocrStatus |-> "ABSENT", indexed |-> FALSE]

\* the fields upsert_document sets on insert ($setOnInsert)
NewDocument == [ocrStatus |-> "PENDING", indexed |-> FALSE]

\* update_one without upsert: no effect when the document does not exist
update_ocr_status(m, f, ocr_status) ==
    IF m[f].ocrStatus = "ABSENT" THEN m
    ELSE IF ocr_status = "COMPLETED"
         THEN [m EXCEPT ![f].ocrStatus = "COMPLETED", ![f].indexed = FALSE]
         ELSE [m EXCEPT ![f].ocrStatus = ocr_status]

get_unindexed_documents(m) ==
    {f \in Files : m[f].ocrStatus = "COMPLETED" /\ ~ m[f].indexed}

mark_documents_indexed(m, ids) ==
    [f \in Files |-> IF f \in ids /\ m[f].ocrStatus # "ABSENT"
                     THEN [m[f] EXCEPT !.indexed = TRUE] ELSE m[f]]

(***************************************************************************)
(* master.json in the invoice folder (invoice_processor.py)                *)
(***************************************************************************)
\* an extracted invoice record; by = 0 for a record that was in master.json
\* before the first run, else the worker whose run produced it (stands for
\* the processed_at stamp of the enriched payload)
Record(f, by) == [drive_file_id |-> f, by |-> by]

RECURSIVE SeqsUpTo(_, _)
SeqsUpTo(S, n) ==
    IF n = 0 THEN {<<>>}
    ELSE LET shorter == SeqsUpTo(S, n - 1)
         IN  shorter \cup {Append(q, x) : q \in shorter, x \in S}

Ids(records) == {records[i].drive_file_id : i \in 1..Len(records)}

CountOf(records, f) ==
    Cardinality({i \in 1..Len(records) : records[i].drive_file_id = f})

UniqueIds(records) == \A f \in Files : CountOf(records, f) <= 1

\* pick = 0: no folder id, no credentials, no file named master.json, or the
\* list / download / json.load raised; otherwise the file the listing put first
_download_master_from_drive(d, pick) ==
    IF pick = 0 THEN <<>> ELSE d[pick]

\* deleted: how many of the existing files the delete loop removed before it
\* finished or raised; created: files().create succeeded.
_upload_master_to_drive(d, content, deleted, created) ==
    LET kept == SubSeq(d, deleted + 1, Len(d))
    IN  [drive |-> IF created THEN Append(kept, content) ELSE kept,
         path  |-> created]

\* mutant of MergeRecord: always appends
MergeRecordAppendOnly(master_records, master_index, file_id, enriched) ==
    Append(master_records, enriched)

\* update or append to master data, lines 299-310
MergeRecord(master_records, master_index, file_id, enriched) ==
    IF file_id \in master_index
    THEN LET hits == {i \in 1..Len(master_records) :
                         master_records[i].drive_file_id = file_id}
         IN  IF hits # {}
             THEN LET idx == CHOOSE i \in hits : \A j \in hits : i <= j
                  IN  [master_records EXCEPT ![idx] = enriched]
             ELSE Append(master_records, enriched)
    ELSE Append(master_records, enriched)

(***************************************************************************)
(* process_vendor_invoices (invoice_processor.py), one step per I/O point. *)
(* w = [run, mongo, drive]: the locals of the run and the two stores.      *)
(* Candidates are well-formed PDF entries, as retry_failed_invoices builds *)
(* them and the InvoicePayload schema requires.                            *)
(***************************************************************************)
\* batch, completed_at_entry, load and loaded only record what the run was
\* given and saw; no step reads them
IdleRun ==
    [pc |-> "idle", batch |-> <<>>, completed_at_entry |-> FALSE,
     invoices |-> <<>>, cur |-> "none", load |-> "none", loaded |-> <<>>,
     master_records |-> <<>>, master_index |-> {}, processed |-> <<>>,
     skipped |-> <<>>, master_json_path |-> FALSE]

Skip(reason, f) == [reason |-> reason, file_id |-> f]

\* entry: without a refresh token the run returns at once
StartStep(w, invoices, has_token) ==
    [w EXCEPT !.run =
        LET entry == [IdleRun EXCEPT
                        !.batch = invoices,
                        !.completed_at_entry =
                            \A i \in 1..Len(invoices) :
                               w.mongo[invoices[i]].ocrStatus = "COMPLETED"]
        IN  IF has_token
            THEN [entry EXCEPT !.pc = "load", !.invoices = invoices]
            ELSE [entry EXCEPT !.pc = "done",
                               !.skipped = <<Skip("missing refresh token", "none")>>]]

\* mutant of LoadMasterStep: a folder without master.json ends the run
LoadMasterStepAbsentEndsRun(w, pick) ==
    LET master_records == _download_master_from_drive(w.drive, pick)
    IN  [w EXCEPT !.run.load = IF pick > 0 THEN "read"
                               ELSE IF w.drive = <<>> THEN "absent" ELSE "failed",
                  !.run.loaded = master_records,
                  !.run.master_records = master_records,
                  !.run.master_index = Ids(master_records),
                  !.run.pc = IF pick = 0 /\ w.drive = <<>> THEN "done" ELSE "check"]

\* Step 1: download master.json and index it by drive_file_id
LoadMasterStep(w, pick) ==
    LET master_records == _download_master_from_drive(w.drive, pick)
    IN  [w EXCEPT !.run.load = IF pick > 0 THEN "read"
                               ELSE IF w.drive = <<>> THEN "absent" ELSE "failed",
                  !.run.loaded = master_records,
                  !.run.master_records = master_records,
                  !.run.master_index = Ids(master_records),
                  !.run.pc = "check"]

\* mutant of CheckStatusStep: a COMPLETED document is processed again
CheckStatusStepNoSkip(w) ==
    IF w.run.invoices = <<>>
    THEN [w EXCEPT !.run.cur = "none",
                   !.run.pc = IF w.run.processed # <<>> THEN "upload" ELSE "done"]
    ELSE [w EXCEPT !.run.invoices = Tail(@), !.run.cur = Head(w.run.invoices),
                   !.run.pc = "mark"]

\* mutant of CheckStatusStep: only completed documents are skipped
CheckStatusStepSkipsCompletedOnly(w) ==
    IF w.run.invoices = <<>>
    THEN [w EXCEPT !.run.cur = "none",
                   !.run.pc = IF w.run.processed # <<>> THEN "upload" ELSE "done"]
    ELSE LET file_id == Head(w.run.invoices)
             ocr_status == w.mongo[file_id].ocrStatus
         IN  IF ocr_status = "COMPLETED"
             THEN [w EXCEPT !.run.invoices = Tail(@), !.run.cur = "none",
                       !.run.skipped = Append(@, Skip("already completed (DB)", file_id))]
             ELSE [w EXCEPT !.run.invoices = Tail(@), !.run.cur = file_id,
                            !.run.pc = "mark"]

\* loop head: find_one and the two skips; after the loop, upload or return
CheckStatusStep(w) ==
    IF w.run.invoices = <<>>
    THEN [w EXCEPT !.run.cur = "none",
                   !.run.pc = IF w.run.processed # <<>> THEN "upload" ELSE "done"]
    ELSE LET file_id == Head(w.run.invoices)
             ocr_status == w.mongo[file_id].ocrStatus
         IN  IF ocr_status = "COMPLETED"
             THEN [w EXCEPT !.run.invoices = Tail(@), !.run.cur = "none",
                       !.run.skipped = Append(@, Skip("already completed (DB)", file_id))]
             ELSE IF ocr_status = "PROCESSING"
             THEN [w EXCEPT !.run.invoices = Tail(@), !.run.cur = "none",
                       !.run.skipped = Append(@, Skip("already processing", file_id))]
             ELSE [w EXCEPT !.run.invoices = Tail(@), !.run.cur = file_id,
                            !.run.pc = "mark"]

\* update_ocr_status(PROCESSING), then the download request is sent
MarkProcessingStep(w) ==
    [w EXCEPT !.mongo = update_ocr_status(@, w.run.cur, "PROCESSING"),
              !.run.pc = "download"]

\* mutant of DownloadStep: a failed download is recorded and the file goes on
\* to OCR
DownloadStepFailureGoesOn(w, ok) ==
    IF ok
    THEN [w EXCEPT !.run.pc = "ocr"]
    ELSE [w EXCEPT !.mongo = update_ocr_status(@, w.run.cur, "FAILED"),
                   !.run.skipped = Append(@, Skip("download failed", w.run.cur)),
                   !.run.pc = "ocr"]

\* _download_pdf returned
DownloadStep(w, ok) ==
    IF ok
    THEN [w EXCEPT !.run.pc = "ocr"]
    ELSE [w EXCEPT !.mongo = update_ocr_status(@, w.run.cur, "FAILED"),
                   !.run.skipped = Append(@, Skip("download failed", w.run.cur)),
                   !.run.cur = "none", !.run.pc = "check"]

\* the result {error, retryable} of the extraction endpoint, by its flag
ErrorResult(retryable) == IF retryable THEN "error_retryable" ELSE "error_final"

\* what the await of _run_invoice_ocr can give the loop: a payload, a failure
\* (None), a result with an error field, or an exception that is not an
\* httpx.HTTPError (response.json() on a 200 answer whose body is not JSON,
\* or a body that is not a JSON object), which nothing in the loop catches
OcrOutcomes ==
    {"payload", "failed", "raised"} \cup {ErrorResult(r) : r \in BOOLEAN}

\* _run_invoice_ocr returned or raised: a failure skips the file; a payload
\* is enriched and merged; an exception leaves process_vendor_invoices at
\* once, with the file still PROCESSING and nothing uploaded
OcrStep(w, outcome, worker) ==
    IF outcome = "raised"
    THEN [w EXCEPT !.run.pc = "raised"]
    ELSE IF outcome = "payload"
    THEN [w EXCEPT !.run.master_records =
                       MergeRecord(@, w.run.master_index, w.run.cur,
                                   Record(w.run.cur, worker)),
                   !.run.master_index = @ \cup {w.run.cur},
                   !.run.processed = Append(@, w.run.cur),
                   !.run.cur = "none", !.run.pc = "check"]
    ELSE [w EXCEPT !.mongo = update_ocr_status(@, w.run.cur, "FAILED"),
                   !.run.skipped = Append(@, Skip("ocr failed", w.run.cur)),
                   !.run.cur = "none", !.run.pc = "check"]

\* Step 2: upload the merged list (only reached when processed is not empty)
UploadStep(w, deleted, created) ==
    LET up == _upload_master_to_drive(w.drive, w.run.master_records, deleted, created)
    IN  [w EXCEPT !.drive = up.drive,
                  !.run.master_json_path = up.path,
                  !.run.pc = "complete"]

RECURSIVE CompleteAll(_, _)
CompleteAll(m, processed) ==
    IF processed = <<>> THEN m
    ELSE CompleteAll(update_ocr_status(m, Head(processed), "COMPLETED"),
                     Tail(processed))

\* update MongoDB for all processed invoices, lines 341-350; master_json_path
\* is passed on, None or not
CompleteStep(w) ==
    [w EXCEPT !.mongo = CompleteAll(@, w.run.processed), !.run.pc = "done"]

(***************************************************************************)
(* chat service: POST /sync (routes/chat.py) and the indexer it calls      *)
(* (orchestrator.py, loader.py, retriever.py).  One user, one vendor.      *)
(* Neither the documents nor the records of this model carry a sha256, so  *)
(* get_indexed_sha256_hashes is empty and every unindexed document is new. *)
(***************************************************************************)
NoSync == [outcome |-> "none", docs |-> {}, writes |-> 0]

\* the user of the pipeline model, the one vendor of the model
PipelineUser == "u1"

VendorName == "acme"

Invoice(n, a, h) == [invoice_number |-> n, total_amount |-> a, sha256 |-> h]

\* _parse_vendor_data on the records process_vendor_invoices writes: the
\* invoice number and the amounts are what the OCR of the worker read (one
\* number per source file), and the pipeline adds no sha256
InvoicesOf(records) ==
    [i \in 1..Len(records) |->
        Invoice(records[i].drive_file_id, records[i].by, "")]

RECURSIVE SumAmounts(_)
SumAmounts(invoices) ==
    IF invoices = <<>> THEN 0
    ELSE Head(invoices).total_amount + SumAmounts(Tail(invoices))

\* md5 of "<vendor>_<key>": one id per key; dup is the -dup<idx> suffix
\* store_embeddings may add (0: none)
ChunkId(key) == [key |-> key, dup |-> 0]

_create_vendor_summary_chunk(invoices, user_id) ==
    [chunk_id |-> ChunkId("summary"), user_id |-> user_id,
     vendor_name |-> VendorName, type |-> "vendor_summary",
     invoice_count |-> Len(invoices), total_amount |-> SumAmounts(invoices),
     sha256 |-> ""]

_create_invoice_chunk(invoice, user_id) ==
    [chunk_id |-> ChunkId(invoice.invoice_number), user_id |-> user_id,
     vendor_name |-> VendorName, type |-> "invoice",
     invoice_count |-> 0, total_amount |-> invoice.total_amount,
     sha256 |-> invoice.sha256]

\* the summary chunk of the vendor, then one chunk per invoice
convert_to_knowledge_chunks(invoices, user_id) ==
    <<_create_vendor_summary_chunk(invoices, user_id)>>
    \o [i \in 1..Len(invoices) |-> _create_invoice_chunk(invoices[i], user_id)]

EmptyCollection == << >>

\* the ids store_embeddings uses for the chunks of one batch: a chunk whose
\* id was already seen in the batch gets the suffix -dup<idx>, idx its
\* position counted from 0
RECURSIVE BatchIds(_, _, _, _)
BatchIds(chunks, i, seen, out) ==
    IF i > Len(chunks) THEN out
    ELSE LET original_id == chunks[i].chunk_id
             cid == IF original_id \in seen
                    THEN [original_id EXCEPT !.dup = i - 1] ELSE original_id
         IN  BatchIds(chunks, i + 1, seen \cup {cid}, Append(out, cid))

\* what collection.add does with an id the collection already holds depends
\* on the Chroma release: the record is ignored, or the call raises
AddPolicies == {"ignored", "raises"}

\* mutant of store_embeddings: an id the collection holds counts as seen in
\* the batch, so the chunk is stored under a -dup id
store_embeddingsSeenInCollection(c, chunks, add_existing) ==
    LET cids == BatchIds(chunks, 1, DOMAIN c, <<>>)
        all == 1..Len(chunks)
        upd == {i \in all : chunks[i].chunk_id \in DOMAIN c
                            /\ cids[i] = chunks[i].chunk_id}
        add == all \ upd
        stored(i) == [chunks[i] EXCEPT !.chunk_id = cids[i]]
    IN  IF chunks = <<>>
        THEN [collection |-> c, success |-> FALSE, written |-> {}]
        ELSE IF add_existing = "raises" /\ \E i \in add : cids[i] \in DOMAIN c
        THEN [collection |-> c, success |-> FALSE, written |-> {}]
        ELSE [collection |->
                 [id \in DOMAIN c \cup {cids[i] : i \in all} |->
                     IF \E i \in upd : cids[i] = id
                     THEN stored(CHOOSE i \in upd : cids[i] = id)
                     ELSE IF id \in DOMAIN c THEN c[id]
                     ELSE stored(CHOOSE i \in add : cids[i] = id)],
              success |-> TRUE,
              written |-> {chunks[i].chunk_id.key : i \in all}]

\* store_embeddings: chunks whose own id is in the collection are updated,
\* all others (new ids and -dup ids) are added; every chunk carries an
\* embedding.  written: the chunk ids for which an add or update was issued
store_embeddings(c, chunks, add_existing) ==
    LET cids == BatchIds(chunks, 1, {}, <<>>)
        all == 1..Len(chunks)
        upd == {i \in all : chunks[i].chunk_id \in DOMAIN c
                            /\ cids[i] = chunks[i].chunk_id}
        add == all \ upd
        stored(i) == [chunks[i] EXCEPT !.chunk_id = cids[i]]
    IN  IF chunks = <<>>
        THEN [collection |-> c, success |-> FALSE, written |-> {}]
        ELSE IF add_existing = "raises" /\ \E i \in add : cids[i] \in DOMAIN c
        THEN [collection |-> c, success |-> FALSE, written |-> {}]
        ELSE [collection |->
                 [id \in DOMAIN c \cup {cids[i] : i \in all} |->
                     IF \E i \in upd : cids[i] = id
                     THEN stored(CHOOSE i \in upd : cids[i] = id)
                     ELSE IF id \in DOMAIN c THEN c[id]
                     ELSE stored(CHOOSE i \in add : cids[i] = id)],
              success |-> TRUE,
              written |-> {chunks[i].chunk_id.key : i \in all}]

list_ids(c) == DOMAIN c

\* process_direct_dataset for the one vendor: embed_ok is FALSE when
\* generate_embeddings raises, otherwise every chunk comes back embedded
process_direct_dataset(c, user_id, invoices, incremental, embed_ok, add_existing) ==
    LET all_chunks == convert_to_knowledge_chunks(invoices, user_id)
        chunks == IF incremental
                  THEN SelectSeq(all_chunks, LAMBDA ch : ch.chunk_id \notin list_ids(c))
                  ELSE all_chunks
        embedded == {chunks[i].chunk_id.key : i \in 1..Len(chunks)}
    IN  IF ~ embed_ok
        THEN [collection |-> c, success |-> FALSE, embedded |-> {}, written |-> {}]
        ELSE LET r == store_embeddings(c, chunks, add_existing)
             IN  [collection |-> r.collection, success |-> r.success,
                  embedded |-> embedded, written |-> r.written]

\* fetched = 0: the email service returned no records for the vendor folder
sync_documents(m, d, vs, fetched, embed_ok, add_existing) ==
    LET unindexed == get_unindexed_documents(m)
        master_records == IF fetched = 0 THEN <<>> ELSE d[fetched]
        result == process_direct_dataset(vs, PipelineUser, InvoicesOf(master_records),
                                         FALSE, embed_ok, add_existing)
    IN  IF unindexed = {}
        THEN [mongo |-> m, vstore |-> vs,
              response |-> [outcome |-> "no documents pending", docs |-> {}, writes |-> 0]]
        ELSE IF master_records = <<>>
        THEN [mongo |-> m, vstore |-> vs,
              response |-> [outcome |-> "no master", docs |-> unindexed, writes |-> 0]]
        ELSE IF ~ result.success
        THEN [mongo |-> m, vstore |-> vs,
              response |-> [outcome |-> "index failed", docs |-> unindexed, writes |-> 0]]
        ELSE [mongo |-> mark_documents_indexed(m, unindexed),
              vstore |-> result.collection,
              response |-> [outcome |-> "indexed", docs |-> unindexed,
                            writes |-> 1 + Len(master_records)]]

NoIndex == [op |-> "none", user_id |-> "none", invoices |-> <<>>,
            incremental |-> FALSE, repeat |-> FALSE,
            success |-> FALSE, embedded |-> {}, written |-> {},
            changed |-> {}, known |-> {}]

(***************************************************************************)
(* The read operations of VectorDatabase (retriever.py).  A query is       *)
(* modelled by the entries its where clause admits: the n_results nearest  *)
(* are some of them.                                                       *)
(***************************************************************************)
Entries(c) == {c[id] : id \in DOMAIN c}

\* mutant of WhereUser: with a vendor filter the user clause is dropped
WhereVendorOnly(c, user_id, vendor_name) ==
    {e \in Entries(c) :
        IF vendor_name # "" THEN e.vendor_name = vendor_name
        ELSE e.user_id = user_id}

\* where={"user_id": ...}, or the $and with {"vendor_name": ...} when a
\* vendor name is given ("" stands for None)
WhereUser(c, user_id, vendor_name) ==
    {e \in Entries(c) :
        /\ e.user_id = user_id
        /\ vendor_name # "" => e.vendor_name = vendor_name}

search(c) == Entries(c)

search_similar(c, user_id) == WhereUser(c, user_id, "")

search_similar_filtered(c, user_id, vendor_name) == WhereUser(c, user_id, vendor_name)

search_by_vendor(c, vendor_name) == {e \in Entries(c) : e.vendor_name = vendor_name}

get_all_by_user(c, user_id, vendor_name) == WhereUser(c, user_id, vendor_name)

get_all_by_vendor(c, vendor_name) == {e \in Entries(c) : e.vendor_name = vendor_name}

\* the entries list_vendors takes the vendor names from ("" stands for None)
list_vendors(c, user_id) ==
    IF user_id = "" THEN Entries(c) ELSE WhereUser(c, user_id, "")

\* the invoice entries whose total_amount the aggregation sums up
get_vendor_spend_totals(c, user_id) ==
    {e \in WhereUser(c, user_id, "") : e.type = "invoice"}

\* the entries that carry a hash which get_indexed_sha256_hashes returns
get_indexed_sha256_hashes(c, user_id) ==
    {e \in WhereUser(c, user_id, "") : e.sha256 # ""}

delete_user_data(c, user_id) ==
    [id \in {i \in DOMAIN c : c[i].user_id # user_id} |-> c[id]]

(***************************************************************************)
(* ProcessingStatusStore (invoice_status.py): one JSON file per user and   *)
(* vendor.  A vendor name is a sequence of characters; a file path is the  *)
(* sequence of the parts the f-string joins.                               *)
(***************************************************************************)
\* characters that are alphanumeric, '-' or '_'
SafeChars == {"a", "b", "-", "_"}

\* _get_status_file_path: every other character of the vendor name becomes '_'
safe_vendor(vendor_name) ==
    [i \in 1..Len(vendor_name) |->
        IF vendor_name[i] \in SafeChars THEN vendor_name[i] ELSE "_"]

\* f"{user_id}_{safe_vendor}_status.json"; user ids and vendor names are
\* sequences of characters, the suffix is one element
_get_status_file_path(user_id, vendor_name) ==
    user_id \o <<"_">> \o safe_vendor(vendor_name) \o <<"_status.json">>

\* filename.startswith(user_id)
startswith(filename, prefix) ==
    /\ Len(filename) >= Len(prefix)
    /\ SubSeq(filename, 1, Len(prefix)) = prefix

\* filename.endswith('_status.json')
endswith_status(filename) ==
    /\ Len(filename) > 0
    /\ filename[Len(filename)] = "_status.json"

EmptyDirectory == << >>

\* content of a status file: the records it lists, or text that is not JSON
\* (the file was opened for writing and not yet written)
FileOf(statuses) == [readable |-> TRUE, statuses |-> statuses]

Unreadable == [readable |-> FALSE, statuses |-> <<>>]

\* load_vendor_statuses: [] when the file is missing or cannot be parsed
load_vendor_statuses(dir, user_id, vendor_name) ==
    LET file_path == _get_status_file_path(user_id, vendor_name)
    IN  IF file_path \notin DOMAIN dir THEN <<>>
        ELSE IF ~ dir[file_path].readable THEN <<>>
        ELSE dir[file_path].statuses

\* save_status, lines 182-191: the first record with the drive_file_id is
\* replaced, or the status is appended
PutStatus(statuses, status) ==
    IF \E i \in 1..Len(statuses) : statuses[i].drive_file_id = status.drive_file_id
    THEN LET i == CHOOSE k \in 1..Len(statuses) :
                     /\ statuses[k].drive_file_id = status.drive_file_id
                     /\ \A j \in 1..(k - 1) :
                           statuses[j].drive_file_id # status.drive_file_id
         IN  [statuses EXCEPT ![i] = status]
    ELSE Append(statuses, status)

\* the directory with file_path holding content
WriteFile(dir, file_path, content) ==
    [q \in DOMAIN dir \cup {file_path} |->
        IF q = file_path THEN content ELSE dir[q]]

NoStatusRecord == [user_id |-> <<>>, vendor_name |-> <<>>,
                   drive_file_id |-> "none", status |-> "PENDING"]

IdleSaver == [pc |-> "idle", status |-> NoStatusRecord, statuses |-> <<>>]

\* no call on the status directory was made yet
NoCall == [op |-> "none", user_id |-> <<>>, vendor_name |-> <<>>,
           drive_file_ids |-> {}, success |-> TRUE, batches |-> {},
           selected |-> {}]

\* the analytics endpoint before its first call
NoReport == [op |-> "none"]

\* the extraction endpoint before its first call
IdleLlm == [pc |-> "idle", provider |-> "none", pdf |-> "none",
            retry_count |-> 0, outcomes |-> <<>>, delays |-> <<>>,
            result |-> "none"]

(***************************************************************************)
(* retry_failed_invoices (retry_service.py) over the status store          *)
(***************************************************************************)
\* max_ocr_retries: int = 3, max_chat_retries: int = 3
DefaultMaxRetries == 3

\* no record for the file in the vendor's status file
NoStatus == [status |-> "NONE", ocr_attempt_count |-> 0, chat_attempt_count |-> 0,
             errors |-> <<>>]

NoRetry == [called |-> FALSE, scope |-> {}, total_failed |-> {},
            retryable |-> <<>>, max_retries_reached |-> {}]

\* the order of the records in the vendor's status file
FileOrder == <<"f1", "f2">>

\* mutant of ReachedCeiling: a count equal to the ceiling is still retried
ReachedCeilingOffByOne(s, max_ocr_retries, max_chat_retries) ==
    \/ s.status = "OCR_FAILED" /\ s.ocr_attempt_count > max_ocr_retries
    \/ s.status = "CHAT_FAILED" /\ s.chat_attempt_count > max_chat_retries

\* filter by retry limits, lines 134-140
ReachedCeiling(s, max_ocr_retries, max_chat_retries) ==
    \/ s.status = "OCR_FAILED" /\ s.ocr_attempt_count >= max_ocr_retries
    \/ s.status = "CHAT_FAILED" /\ s.chat_attempt_count >= max_chat_retries

\* the statuses selected for a retry, lines 119-128: failed and retryable, and
\* within drive_file_ids when the caller gives a non-empty list (scope)
FailedStatuses(store, scope) ==
    {f \in Files : /\ store[f].status \in {"OCR_FAILED", "CHAT_FAILED"}
                   /\ is_retryable(store[f])
                   /\ (scope # {} => f \in scope)}

SelectInOrder(S) == SelectSeq(FileOrder, LAMBDA f : f \in S)

retry_selection(store, scope, max_ocr_retries, max_chat_retries) ==
    LET failed == FailedStatuses(store, scope)
        reached == {f \in failed :
                       ReachedCeiling(store[f], max_ocr_retries, max_chat_retries)}
    IN  [called |-> TRUE, scope |-> scope, total_failed |-> failed,
         retryable |-> SelectInOrder(failed \ reached),
         max_retries_reached |-> reached]

(***************************************************************************)
(* Outcomes of the I/O of one step.                                         *)
(***************************************************************************)
LoadPicks(d) == 0..Len(d)

\* the call of worker p has returned or raised, or none was made yet
Returned(p) == run[p].pc \in {"idle", "done", "raised"}

UploadOutcomes(d) ==
    {o \in (0..Len(d)) \X BOOLEAN :
        Len(d) - o[1] + (IF o[2] THEN 1 ELSE 0) <= MaxMasterFiles}

InitialMasters == SeqsUpTo({Record(f, 0) : f \in Files}, MaxInitRecords)

Batches == SeqsUpTo(Files, MaxBatch) \ {<<>>}

World(p) == [run |-> run[p], mongo |-> mongo, drive |-> drive]

Becomes(p, w) ==
    /\ run' = [run EXCEPT ![p] = w.run]
    /\ mongo' = w.mongo
    /\ drive' = w.drive
    /\ UNCHANGED <<st, vstore, statusStore, ceilings, otherVars>>

(***************************************************************************)
(* Spec: the handlers called one after the other.                          *)
(***************************************************************************)
Init ==
    /\ st = InvoiceProcessingStatus
    /\ mongo = [f \in Files |-> NoDocument]
    /\ drive \in {<<>>} \cup {<<l>> : l \in InitialMasters}
    /\ run = [p \in Procs |-> IdleRun]
    /\ vstore = EmptyCollection
    /\ lastSync = NoSync
    /\ statusStore = [f \in Files |-> NoStatus]
    /\ ceilings = [ocr |-> DefaultMaxRetries, chat |-> DefaultMaxRetries]
    /\ lastRetry = NoRetry
    /\ redriven = [f \in Files |-> 0]
    /\ lastIndex = NoIndex
    /\ statusFiles = EmptyDirectory
    /\ saver = [p \in Procs |-> IdleSaver]
    /\ lastCall = NoCall
    /\ llm = IdleLlm
    /\ analytics = NoReport

\* the email service registers an uploaded attachment (upsert_document)
UpsertDocument(f) ==
    /\ Returned(1)
    /\ mongo[f].ocrStatus = "ABSENT"
    /\ mongo' = [mongo EXCEPT ![f] = NewDocument]
    /\ UNCHANGED <<st, drive, run, vstore, lastSync, retryVars, otherVars>>

\* POST /sync of the chat service, between two pipeline calls
SyncDocuments ==
    /\ Returned(1)
    /\ \E fetched \in 0..Len(drive), embed_ok \in BOOLEAN, add_existing \in AddPolicies :
          LET r == sync_documents(mongo, drive, vstore, fetched, embed_ok, add_existing)
          IN  /\ mongo' = r.mongo
              /\ vstore' = r.vstore
              /\ lastSync' = r.response
    /\ UNCHANGED <<st, drive, run, retryVars, otherVars>>

\* POST /api/v1/processing/vendor: a process_vendor_invoices call begins
PvStart(p) ==
    /\ Returned(p)
    /\ \E invoices \in Batches, has_token \in BOOLEAN :
          Becomes(p, StartStep(World(p), invoices, has_token))
    /\ lastSync' = NoSync
    /\ UNCHANGED <<lastRetry, redriven>>

PvLoadMaster(p) ==
    /\ run[p].pc = "load"
    /\ \E pick \in LoadPicks(drive) : Becomes(p, LoadMasterStep(World(p), pick))
    /\ UNCHANGED <<lastSync, lastRetry, redriven>>

PvCheckStatus(p) ==
    /\ run[p].pc = "check"
    /\ Becomes(p, CheckStatusStep(World(p)))
    /\ UNCHANGED <<lastSync, lastRetry, redriven>>

PvMarkProcessing(p) ==
    /\ run[p].pc = "mark"
    /\ Becomes(p, MarkProcessingStep(World(p)))
    /\ UNCHANGED <<lastSync, lastRetry, redriven>>

PvDownloadPdf(p) ==
    /\ run[p].pc = "download"
    /\ \E ok \in BOOLEAN : Becomes(p, DownloadStep(World(p), ok))
    /\ UNCHANGED <<lastSync, lastRetry, redriven>>

PvRunOcr(p) ==
    /\ run[p].pc = "ocr"
    /\ \E outcome \in OcrOutcomes : Becomes(p, OcrStep(World(p), outcome, p))
    /\ UNCHANGED <<lastSync, lastRetry, redriven>>

PvUploadMaster(p) ==
    /\ run[p].pc = "upload"
    /\ \E o \in UploadOutcomes(drive) : Becomes(p, UploadStep(World(p), o[1], o[2]))
    /\ UNCHANGED <<lastSync, lastRetry, redriven>>

PvComplete(p) ==
    /\ run[p].pc = "complete"
    /\ Becomes(p, CompleteStep(World(p)))
    /\ UNCHANGED <<lastSync, lastRetry, redriven>>

Next ==
    \/ \E f \in Files : UpsertDocument(f)
    \/ SyncDocuments
    \/ PvStart(1)
    \/ PvLoadMaster(1)
    \/ PvCheckStatus(1)
    \/ PvMarkProcessing(1)
    \/ PvDownloadPdf(1)
    \/ PvRunOcr(1)
    \/ PvUploadMaster(1)
    \/ PvComplete(1)

Spec == Init /\ [][Next]_vars

(***************************************************************************)
(* SpecRace: two workers each run process_vendor_invoices once on the same *)
(* vendor folder and interleave at their I/O points.                       *)
(***************************************************************************)
InitRace ==
    /\ st = InvoiceProcessingStatus
    /\ mongo = [f \in Files |-> NewDocument]
    /\ drive \in {<<>>} \cup {<<l>> : l \in InitialMasters}
    /\ run = [p \in Procs |-> IdleRun]
    /\ vstore = EmptyCollection
    /\ lastSync = NoSync
    /\ statusStore = [f \in Files |-> NoStatus]
    /\ ceilings = [ocr |-> DefaultMaxRetries, chat |-> DefaultMaxRetries]
    /\ lastRetry = NoRetry
    /\ redriven = [f \in Files |-> 0]
    /\ lastIndex = NoIndex
    /\ statusFiles = EmptyDirectory
    /\ saver = [p \in Procs |-> IdleSaver]
    /\ lastCall = NoCall
    /\ llm = IdleLlm
    /\ analytics = NoReport

PvStartOnce(p) ==
    /\ run[p].pc = "idle"
    /\ \E invoices \in Batches : Becomes(p, StartStep(World(p), invoices, TRUE))
    /\ lastSync' = NoSync
    /\ UNCHANGED <<lastRetry, redriven>>

NextRace ==
    \/ \E p \in Procs : PvStartOnce(p)
    \/ \E p \in Procs : PvLoadMaster(p)
    \/ \E p \in Procs : PvCheckStatus(p)
    \/ \E p \in Procs : PvMarkProcessing(p)
    \/ \E p \in Procs : PvDownloadPdf(p)
    \/ \E p \in Procs : PvRunOcr(p)
    \/ \E p \in Procs : PvUploadMaster(p)
    \/ \E p \in Procs : PvComplete(p)

SpecRace == InitRace /\ [][NextRace]_vars

(***************************************************************************)
(* SpecRetry: POST /api/v1/processing/retry over a status store whose      *)
(* records went through the transition methods; the batch a call selects   *)
(* runs through process_vendor_invoices before the next call.              *)
(***************************************************************************)
\* k OCR attempts that failed, the last with the flag given
RECURSIVE OcrFailedAfter(_, _, _)
OcrFailedAfter(s, k, retryable) ==
    IF k = 0 THEN s
    ELSE OcrFailedAfter(
             mark_ocr_failed(mark_ocr_processing(mark_downloading(s)),
                             IF k = 1 THEN retryable ELSE TRUE),
             k - 1, retryable)

\* k indexing attempts that failed, the last with the flag given
RECURSIVE ChatFailedAfter(_, _, _)
ChatFailedAfter(s, k, retryable) ==
    IF k = 0 THEN s
    ELSE ChatFailedAfter(
             mark_chat_failed(mark_chat_indexing(s),
                              IF k = 1 THEN retryable ELSE TRUE),
             k - 1, retryable)

OcrDone == mark_ocr_success(mark_ocr_processing(mark_downloading(InvoiceProcessingStatus)))

StoredStatuses ==
    {NoStatus, InvoiceProcessingStatus, OcrDone, mark_completed(mark_chat_indexing(OcrDone))}
    \cup {mark_ocr_failed(mark_downloading(InvoiceProcessingStatus), r) : r \in BOOLEAN}
    \cup {OcrFailedAfter(InvoiceProcessingStatus, k, r) :
             k \in 1..MaxStoredAttempts, r \in BOOLEAN}
    \cup {ChatFailedAfter(OcrDone, k, r) : k \in 1..MaxStoredAttempts, r \in BOOLEAN}

InitRetry ==
    /\ st = InvoiceProcessingStatus
    /\ mongo \in [Files -> {[ocrStatus |-> "FAILED", indexed |-> FALSE],
                            [ocrStatus |-> "COMPLETED", indexed |-> FALSE]}]
    /\ drive = <<>>
    /\ run = [p \in Procs |-> IdleRun]
    /\ vstore = EmptyCollection
    /\ lastSync = NoSync
    /\ statusStore \in [Files -> StoredStatuses]
    /\ ceilings \in [ocr : 1..MaxCeiling, chat : 1..MaxCeiling]
    /\ lastRetry = NoRetry
    /\ redriven = [f \in Files |-> 0]
    /\ lastIndex = NoIndex
    /\ statusFiles = EmptyDirectory
    /\ saver = [p \in Procs |-> IdleSaver]
    /\ lastCall = NoCall
    /\ llm = IdleLlm
    /\ analytics = NoReport

MaxRedrive == MaxCeiling + 1

\* one retry_failed_invoices call up to the point where it awaits the
\* pipeline run of the vendor's batch (or returns "No retryable invoices")
RetryFailedInvoices ==
    /\ Returned(1)
    /\ \E scope \in SUBSET Files :
          LET sel == retry_selection(statusStore, scope, ceilings.ocr, ceilings.chat)
              batch == sel.retryable
          IN  /\ \A i \in 1..Len(batch) : redriven[batch[i]] < MaxRedrive
              /\ lastRetry' = sel
              /\ redriven' = [f \in Files |->
                                 IF \E i \in 1..Len(batch) : batch[i] = f
                                 THEN redriven[f] + 1 ELSE redriven[f]]
              /\ IF batch = <<>>
                 THEN UNCHANGED <<run, mongo, drive>>
                 ELSE /\ run' = [run EXCEPT ![1] = StartStep(World(1), batch, TRUE).run]
                      /\ UNCHANGED <<mongo, drive>>
    /\ UNCHANGED <<st, vstore, lastSync, statusStore, ceilings, otherVars>>

NextRetry ==
    \/ RetryFailedInvoices
    \/ PvLoadMaster(1)
    \/ PvCheckStatus(1)
    \/ PvMarkProcessing(1)
    \/ PvDownloadPdf(1)
    \/ PvRunOcr(1)
    \/ PvUploadMaster(1)
    \/ PvComplete(1)

SpecRetry == InitRetry /\ [][NextRetry]_vars

(***************************************************************************)
(* The operations of the chat service on the one Chroma collection, for    *)
(* the users and record lists a specification hands them.                  *)
(***************************************************************************)
Users == {"u1", "u2"}

InvoiceNumbers == {"n1", "n2"}

Amounts == {10, 20}

Hashes == {"h1", "h2"}

\* the lists of one or two of the given records
ListsOf(records) ==
    {<<r>> : r \in records} \cup {<<r1, r2>> : r1 \in records, r2 \in records}

\* the positions at which new differs from old, when the two lists differ in
\* the total_amount of exactly one record and in nothing else
ChangedAmount(old, new) ==
    IF Len(old) # Len(new) THEN {}
    ELSE LET diff == {i \in 1..Len(new) : new[i] # old[i]}
         IN  IF /\ Cardinality(diff) = 1
                /\ \A i \in diff : [new[i] EXCEPT !.total_amount = 0]
                                   = [old[i] EXCEPT !.total_amount = 0]
             THEN diff ELSE {}

InitIndex ==
    /\ st = InvoiceProcessingStatus
    /\ mongo = [f \in Files |-> NoDocument]
    /\ drive = <<>>
    /\ run = [p \in Procs |-> IdleRun]
    /\ vstore = EmptyCollection
    /\ lastSync = NoSync
    /\ statusStore = [f \in Files |-> NoStatus]
    /\ ceilings = [ocr |-> DefaultMaxRetries, chat |-> DefaultMaxRetries]
    /\ lastRetry = NoRetry
    /\ redriven = [f \in Files |-> 0]
    /\ lastIndex = NoIndex
    /\ statusFiles = EmptyDirectory
    /\ saver = [p \in Procs |-> IdleSaver]
    /\ lastCall = NoCall
    /\ llm = IdleLlm
    /\ analytics = NoReport

\* process_direct_dataset called for a user with a record list of the vendor
IndexOp(users, lists) ==
    /\ \E user_id \in users, invoices \in lists, incremental \in BOOLEAN,
          embed_ok \in BOOLEAN, add_existing \in AddPolicies :
          LET r == process_direct_dataset(vstore, user_id, invoices, incremental,
                                          embed_ok, add_existing)
          IN  /\ vstore' = r.collection
              /\ lastIndex' =
                    [op |-> "index", user_id |-> user_id, invoices |-> invoices,
                     incremental |-> incremental,
                     repeat |-> /\ lastIndex.op = "index" /\ lastIndex.success
                                /\ lastIndex.user_id = user_id
                                /\ lastIndex.invoices = invoices
                                /\ lastIndex.incremental = incremental,
                     success |-> r.success, embedded |-> r.embedded,
                     written |-> r.written,
                     changed |-> IF /\ lastIndex.op = "index" /\ lastIndex.success
                                    /\ lastIndex.user_id = user_id
                                 THEN ChangedAmount(lastIndex.invoices, invoices)
                                 ELSE {},
                     known |-> {}]
    /\ UNCHANGED <<st, mongo, drive, run, lastSync, retryVars, storeVars, llm, analytics>>

\* POST /sync for a user, from the sha256 check on (chat.py 81-159):
\* doc_hashes are the sha256 fields of the unindexed documents MongoDB
\* returned ("" for a document without one), invoices the records the email
\* service returned for the vendor.  Documents whose hash is indexed are only
\* marked in MongoDB; when others remain, the whole record list is indexed.
SyncOp(users, hashes, lists) ==
    /\ \E user_id \in users, doc_hashes \in SUBSET hashes \ {{}},
          invoices \in lists, embed_ok \in BOOLEAN, add_existing \in AddPolicies :
          LET indexed_hashes == {e.sha256 : e \in get_indexed_sha256_hashes(vstore, user_id)}
              new_docs == {h \in doc_hashes : ~ (h # "" /\ h \in indexed_hashes)}
              r == IF new_docs = {}
                   THEN [collection |-> vstore, success |-> TRUE,
                         embedded |-> {}, written |-> {}]
                   ELSE process_direct_dataset(vstore, user_id, invoices, FALSE,
                                               embed_ok, add_existing)
          IN  /\ vstore' = r.collection
              /\ lastIndex' =
                    [op |-> "sync", user_id |-> user_id, invoices |-> invoices,
                     incremental |-> FALSE, repeat |-> FALSE,
                     success |-> r.success, embedded |-> r.embedded,
                     written |-> r.written, changed |-> {},
                     known |-> {i \in 1..Len(invoices) :
                                   /\ invoices[i].sha256 # ""
                                   /\ invoices[i].sha256 \in indexed_hashes}]
    /\ UNCHANGED <<st, mongo, drive, run, lastSync, retryVars, storeVars, llm, analytics>>

\* DELETE /user/{user_id}/data
PurgeOp(users) ==
    /\ \E user_id \in users :
          /\ vstore' = delete_user_data(vstore, user_id)
          /\ lastIndex' = [NoIndex EXCEPT !.op = "delete", !.user_id = user_id,
                                          !.success = TRUE]
    /\ UNCHANGED <<st, mongo, drive, run, lastSync, retryVars, storeVars, llm, analytics>>

(***************************************************************************)
(* SpecIndex: one user indexes record lists of the vendor again and again; *)
(* the records differ in invoice number and total_amount.                  *)
(***************************************************************************)
\* the total_amount of record n1 varies, record n2 stays as it is
AmountLists ==
    ListsOf({Invoice("n1", a, "") : a \in Amounts} \cup {Invoice("n2", 10, "")})

IndexDataset == IndexOp({PipelineUser}, AmountLists)

NextIndex == IndexDataset

SpecIndex == InitIndex /\ [][NextIndex]_vars

(***************************************************************************)
(* SpecSync: one user syncs again and again; the records differ in invoice *)
(* number and content hash.                                                *)
(***************************************************************************)
\* the content hash of record n2 varies, record n1 stays as it is
HashLists ==
    ListsOf({Invoice("n2", 10, h) : h \in Hashes} \cup {Invoice("n1", 10, "h1")})

SyncUser == SyncOp({PipelineUser}, Hashes \cup {""}, HashLists)

NextSync == SyncUser

SpecSync == InitIndex /\ [][NextSync]_vars

(***************************************************************************)
(* SpecTenants: two users index, sync and purge in any order; their        *)
(* records have the same vendor name and the same invoice numbers.         *)
(***************************************************************************)
TenantLists ==
    {<<Invoice(n, 10, "h1")>> : n \in InvoiceNumbers}
    \cup {<<Invoice("n1", 10, "h1"), Invoice("n2", 10, "h1")>>}

TenantIndex == IndexOp(Users, TenantLists)

TenantSync == SyncOp(Users, {"", "h1"}, TenantLists)

TenantPurge == PurgeOp(Users)

NextTenants ==
    \/ TenantIndex
    \/ TenantSync
    \/ TenantPurge

SpecTenants == InitIndex /\ [][NextTenants]_vars

(***************************************************************************)
(* SpecStore: two callers of save_status, each call in three steps: the    *)
(* load of the vendor's file, the open for writing, the dump.              *)
(***************************************************************************)
VendorNames == {<<"a", "/">>, <<"a", "_">>, <<"b">>}

\* the user whose statuses the two callers save
StoreUser == <<"u", "1">>

SavedStatuses == {"OCR_FAILED"}

InitStore ==
    /\ st = InvoiceProcessingStatus
    /\ mongo = [f \in Files |-> NoDocument]
    /\ drive = <<>>
    /\ run = [p \in Procs |-> IdleRun]
    /\ vstore = EmptyCollection
    /\ lastSync = NoSync
    /\ statusStore = [f \in Files |-> NoStatus]
    /\ ceilings = [ocr |-> DefaultMaxRetries, chat |-> DefaultMaxRetries]
    /\ lastRetry = NoRetry
    /\ redriven = [f \in Files |-> 0]
    /\ lastIndex = NoIndex
    /\ statusFiles = EmptyDirectory
    /\ saver = [p \in Procs |-> IdleSaver]
    /\ lastCall = NoCall
    /\ llm = IdleLlm
    /\ analytics = NoReport

\* save_status up to line 180: the statuses of the vendor's file are loaded
SaveLoad(p) ==
    /\ saver[p].pc = "idle"
    /\ \E vendor_name \in VendorNames, f \in Files, s \in SavedStatuses :
          LET status == [user_id |-> StoreUser, vendor_name |-> vendor_name,
                         drive_file_id |-> f, status |-> s]
          IN  saver' = [saver EXCEPT ![p] =
                  [pc |-> "loaded", status |-> status,
                   statuses |-> load_vendor_statuses(statusFiles, StoreUser,
                                                     vendor_name)]]
    /\ UNCHANGED <<st, mongo, drive, run, vstore, lastSync, retryVars, lastIndex, llm, analytics,
                   statusFiles, lastCall>>

\* lines 182-194: the list is updated in memory and open(file_path, 'w')
\* truncates the file
SaveOpen(p) ==
    /\ saver[p].pc = "loaded"
    /\ saver' = [saver EXCEPT ![p].pc = "open",
                              ![p].statuses = PutStatus(saver[p].statuses,
                                                        saver[p].status)]
    /\ statusFiles' = WriteFile(statusFiles,
                                _get_status_file_path(saver[p].status.user_id,
                                                      saver[p].status.vendor_name),
                                Unreadable)
    /\ UNCHANGED <<st, mongo, drive, run, vstore, lastSync, retryVars, lastIndex, llm, analytics,
                   lastCall>>

\* line 195: json.dump writes the list
SaveDump(p) ==
    /\ saver[p].pc = "open"
    /\ statusFiles' = WriteFile(statusFiles,
                                _get_status_file_path(saver[p].status.user_id,
                                                      saver[p].status.vendor_name),
                                FileOf(saver[p].statuses))
    /\ saver' = [saver EXCEPT ![p] = IdleSaver]
    /\ UNCHANGED <<st, mongo, drive, run, vstore, lastSync, retryVars, lastIndex, llm, analytics,
                   lastCall>>

NextStore ==
    \/ \E p \in Procs : SaveLoad(p)
    \/ \E p \in Procs : SaveOpen(p)
    \/ \E p \in Procs : SaveDump(p)

SpecStore == InitStore /\ [][NextStore]_vars

(***************************************************************************)
(* SpecScope: two users, the identifier of one a prefix of the other's,    *)
(* save statuses, start retries and clear their statuses                   *)
(* (retry_service.py over the processing_status directory).                *)
(***************************************************************************)
ScopeUsers == {<<"u", "1">>, <<"u", "1", "0">>}

ScopeVendors == {<<"a", "/">>, <<"a", "_">>}

\* vendor_name: Optional[str] = None
NoVendor == <<>>

\* drive_file_ids: Optional[List[str]] = None, or a list of file ids
ScopeFileIds == {{}, {"f1"}}

\* the statuses the callers save: a failed extraction, retryable or not, and
\* a completed document
ScopeStatuses ==
    {OcrFailedAfter(InvoiceProcessingStatus, 1, r) : r \in BOOLEAN}
        \cup {mark_completed(mark_chat_indexing(OcrDone))}

\* the Drive folder holding the invoices of one user's vendor
FolderOf(user_id, vendor_name) == <<user_id, vendor_name>>

\* the InvoiceProcessingStatus of a file with its identifying fields
StatusOf(user_id, vendor_name, f, s) ==
    [user_id |-> user_id, vendor_name |-> vendor_name, drive_file_id |-> f,
     invoice_folder_id |-> FolderOf(user_id, vendor_name),
     status |-> s.status, ocr_attempt_count |-> s.ocr_attempt_count,
     chat_attempt_count |-> s.chat_attempt_count, errors |-> s.errors]

\* save_status as one step
save_status(dir, status) ==
    WriteFile(dir, _get_status_file_path(status.user_id, status.vendor_name),
              FileOf(PutStatus(load_vendor_statuses(dir, status.user_id,
                                                    status.vendor_name),
                               status)))

\* the files of the directory that a listing for user_id keeps
user_files(dir, user_id) ==
    {q \in DOMAIN dir : startswith(q, user_id) /\ endswith_status(q)}

\* os.listdir returns the names in arbitrary order
listdir(S) ==
    {order \in [1..Cardinality(S) -> S] : {order[i] : i \in DOMAIN order} = S}

\* the records of the files read in the order given; a file that cannot be
\* parsed is passed over
RECURSIVE read_all(_, _)
read_all(dir, order) ==
    IF order = <<>> THEN <<>>
    ELSE (IF dir[Head(order)].readable THEN dir[Head(order)].statuses ELSE <<>>)
             \o read_all(dir, Tail(order))

failed_and_retryable(s) ==
    /\ s.status \in {"OCR_FAILED", "CHAT_FAILED"}
    /\ is_retryable(s)

\* get_failed_invoices, and lines 120-124 of retry_failed_invoices
get_failed_invoices(dir, user_id, vendor_name, order) ==
    IF vendor_name # NoVendor
    THEN SelectSeq(load_vendor_statuses(dir, user_id, vendor_name),
                   failed_and_retryable)
    ELSE SelectSeq(read_all(dir, order), failed_and_retryable)

\* retry_failed_invoices, lines 119-170: the invoices of the batches handed to
\* process_vendor_invoices, each with the vendor and the folder of its batch
retry_batches(dir, user_id, vendor_name, drive_file_ids, max_ocr_retries, max_chat_retries, order) ==
    LET failed_statuses == get_failed_invoices(dir, user_id, vendor_name, order)
        scoped == IF drive_file_ids # {}
                  THEN SelectSeq(failed_statuses,
                                 LAMBDA s : s.drive_file_id \in drive_file_ids)
                  ELSE failed_statuses
        retryable == SelectSeq(scoped,
                               LAMBDA s : ~ ReachedCeiling(s, max_ocr_retries,
                                                           max_chat_retries))
        first(vendor) == retryable[CHOOSE i \in 1..Len(retryable) :
                             /\ retryable[i].vendor_name = vendor
                             /\ \A j \in 1..(i - 1) :
                                   retryable[j].vendor_name # vendor]
    IN  {[vendor_name |-> retryable[i].vendor_name,
          invoice_folder_id |-> first(retryable[i].vendor_name).invoice_folder_id,
          drive_file_id |-> retryable[i].drive_file_id] :
            i \in 1..Len(retryable)}

\* clear_user_statuses: the first `removed` files of the listing are removed;
\* os.remove raised on the next one when removed is less than their number
clear_user_statuses(dir, order, removed) ==
    [q \in DOMAIN dir \ {order[i] : i \in 1..removed} |-> dir[q]]

\* the statuses a scan reads: the file of the vendor, or every file the
\* listing keeps for user_id
scan_statuses(dir, user_id, vendor_name, order) ==
    IF vendor_name # NoVendor
    THEN load_vendor_statuses(dir, user_id, vendor_name)
    ELSE read_all(dir, order)

StatusFilters == {"", "FAILED"}

\* s.status == status_filter or status_filter in s.status
matches_filter(status, status_filter) ==
    \/ status = status_filter
    \/ status_filter = "FAILED" /\ status \in {"OCR_FAILED", "CHAT_FAILED"}

\* get_processing_status: the statuses it reports
get_processing_status(dir, user_id, vendor_name, status_filter, order) ==
    LET statuses == scan_statuses(dir, user_id, vendor_name, order)
    IN  IF status_filter # ""
        THEN SelectSeq(statuses, LAMBDA st_ : matches_filter(st_.status, status_filter))
        ELSE statuses

\* get_status_summary: the statuses it counts
get_status_summary(dir, user_id, vendor_name, order) ==
    scan_statuses(dir, user_id, vendor_name, order)

Range(q) == {q[i] : i \in 1..Len(q)}

InitScope ==
    /\ st = InvoiceProcessingStatus
    /\ mongo = [f \in Files |-> NoDocument]
    /\ drive = <<>>
    /\ run = [p \in Procs |-> IdleRun]
    /\ vstore = EmptyCollection
    /\ lastSync = NoSync
    /\ statusStore = [f \in Files |-> NoStatus]
    /\ ceilings = [ocr |-> DefaultMaxRetries, chat |-> DefaultMaxRetries]
    /\ lastRetry = NoRetry
    /\ redriven = [f \in Files |-> 0]
    /\ lastIndex = NoIndex
    /\ statusFiles = EmptyDirectory
    /\ saver = [p \in Procs |-> IdleSaver]
    /\ lastCall = NoCall
    /\ llm = IdleLlm
    /\ analytics = NoReport

SaveStatus ==
    /\ \E user_id \in ScopeUsers, vendor_name \in ScopeVendors, f \in Files,
          s \in ScopeStatuses :
          statusFiles' = save_status(statusFiles,
                                     StatusOf(user_id, vendor_name, f, s))
    /\ lastCall' = [NoCall EXCEPT !.op = "save"]
    /\ UNCHANGED <<st, mongo, drive, run, vstore, lastSync, retryVars, lastIndex, llm, analytics,
                   saver>>

RetryCall ==
    /\ \E user_id \in ScopeUsers, vendor_name \in ScopeVendors \cup {NoVendor},
          drive_file_ids \in ScopeFileIds :
          \E order \in listdir(user_files(statusFiles, user_id)) :
          lastCall' = [op |-> "retry", user_id |-> user_id,
                       vendor_name |-> vendor_name,
                       drive_file_ids |-> drive_file_ids, success |-> TRUE,
                       batches |-> retry_batches(statusFiles, user_id,
                                       vendor_name, drive_file_ids,
                                       ceilings.ocr, ceilings.chat, order),
                       selected |-> Range(get_failed_invoices(statusFiles,
                                       user_id, vendor_name, order))]
    /\ UNCHANGED <<st, mongo, drive, run, vstore, lastSync, retryVars, lastIndex, llm, analytics,
                   statusFiles, saver>>

ClearUserStatuses ==
    /\ \E user_id \in ScopeUsers :
          \E order \in listdir(user_files(statusFiles, user_id)) :
             \E removed \in 0..Len(order) :
                /\ statusFiles' = clear_user_statuses(statusFiles, order, removed)
                /\ lastCall' = [NoCall EXCEPT !.op = "clear", !.user_id = user_id,
                                              !.success = (removed = Len(order))]
    /\ UNCHANGED <<st, mongo, drive, run, vstore, lastSync, retryVars, lastIndex, llm, analytics,
                   saver>>

GetProcessingStatus ==
    /\ \E user_id \in ScopeUsers, vendor_name \in ScopeVendors \cup {NoVendor},
          status_filter \in StatusFilters :
          \E order \in listdir(user_files(statusFiles, user_id)) :
             lastCall' = [NoCall EXCEPT
                             !.op = "status", !.user_id = user_id,
                             !.selected = Range(get_processing_status(statusFiles,
                                             user_id, vendor_name, status_filter,
                                             order))]
    /\ UNCHANGED <<st, mongo, drive, run, vstore, lastSync, retryVars, lastIndex, llm, analytics,
                   statusFiles, saver>>

GetStatusSummary ==
    /\ \E user_id \in ScopeUsers, vendor_name \in ScopeVendors \cup {NoVendor} :
          \E order \in listdir(user_files(statusFiles, user_id)) :
             lastCall' = [NoCall EXCEPT
                             !.op = "summary", !.user_id = user_id,
                             !.selected = Range(get_status_summary(statusFiles,
                                             user_id, vendor_name, order))]
    /\ UNCHANGED <<st, mongo, drive, run, vstore, lastSync, retryVars, lastIndex, llm, analytics,
                   statusFiles, saver>>

NextScope ==
    \/ SaveStatus
    \/ RetryCall
    \/ ClearUserStatuses
    \/ GetProcessingStatus
    \/ GetStatusSummary

SpecScope == InitScope /\ [][NextScope]_vars

(***************************************************************************)
(* SpecExtract: POST /invoice/extract called again and again, one step per *)
(* request to the model (invoice_routes.py, gemini_client.py).             *)
(***************************************************************************)
\* extract_invoice_json_from_text(extracted_text, max_retries: int = 3)
LlmMaxRetries == 3

\* base_delay = 2
base_delay == 2

Providers == {"gemini", "ollama"}

\* what one request to the model ends in: the request times out, a 429, a 5xx
\* or another error status, a 200 whose body is not the expected envelope, or
\* a 200 with the model's text: empty, a JSON object, another JSON value, a
\* JSON object wrapped in prose, text with braces that is not JSON between
\* them, text without braces that is not JSON
RequestOutcomes ==
    {"timeout", "429", "5xx", "http_error", "bad_envelope",
     "empty", "object", "value", "wrapped", "braces", "plain"}

\* extract_text_from_pdf: text, no text, or an exception
PdfOutcomes == {"text", "no_text", "raises"}

\* the return of a call: result is "payload" for a dict without an error key,
\* "json_value" for a JSON value that is not a dict, or an error dict
Returns(c, result) == [c EXCEPT !.pc = "done", !.result = result]

\* lines 130-136, 140-146, 167-173 (94-100 of call_ollama): sleep and go
\* round the loop again, or give up
RetryOrGiveUpOneMore(c, max_retries) ==
    IF c.retry_count <= max_retries
    THEN [c EXCEPT !.delays = Append(@, base_delay * (2 ^ c.retry_count)),
                   !.retry_count = @ + 1]
    ELSE Returns(c, ErrorResult(TRUE))

RetryOrGiveUp(c, max_retries) ==
    IF c.retry_count < max_retries
    THEN [c EXCEPT !.delays = Append(@, base_delay * (2 ^ c.retry_count)),
                   !.retry_count = @ + 1]
    ELSE Returns(c, ErrorResult(TRUE))

\* lines 157-164 (83-91 of call_ollama): json.loads of the text, then of the
\* text between the first '{' and the last '}'; a JSONDecodeError of the second
\* json.loads is raised inside the handler and caught by `except Exception`
ParseModelText(c, text) ==
    CASE text = "object"  -> Returns(c, "payload")
      [] text = "value"   -> Returns(c, "json_value")
      [] text = "wrapped" -> Returns(c, "payload")
      [] text = "braces"  -> Returns(c, ErrorResult(TRUE))
      [] OTHER            -> Returns(c, ErrorResult(FALSE))

\* one round of the loop of call_gemini, or line 178 once
\* retry_count <= max_retries is false
call_gemini(c, outcome, max_retries) ==
    LET d == [c EXCEPT !.outcomes = Append(@, outcome)]
    IN  CASE c.retry_count > max_retries -> Returns(c, ErrorResult(TRUE))
          [] outcome \in {"429", "5xx", "timeout"} -> RetryOrGiveUp(d, max_retries)
          [] outcome \in {"http_error", "bad_envelope"} ->
                 Returns(d, ErrorResult(TRUE))
          [] outcome = "empty" -> Returns(d, ErrorResult(FALSE))
          [] OTHER -> ParseModelText(d, outcome)

\* one round of the loop of call_ollama: raise_for_status turns every error
\* status into an exception, and an empty text goes through json.loads
call_ollama(c, outcome, max_retries) ==
    LET d == [c EXCEPT !.outcomes = Append(@, outcome)]
    IN  CASE c.retry_count > max_retries -> Returns(c, ErrorResult(TRUE))
          [] outcome = "timeout" -> RetryOrGiveUp(d, max_retries)
          [] outcome \in {"429", "5xx", "http_error", "bad_envelope"} ->
                 Returns(d, ErrorResult(TRUE))
          [] OTHER -> ParseModelText(d, outcome)

\* extract_invoice up to the call of the model, and
\* extract_invoice_json_from_text up to the first request
extract_invoice(provider, pdf, configured) ==
    LET c == [IdleLlm EXCEPT !.provider = provider, !.pdf = pdf]
    IN  CASE pdf = "raises"  -> Returns(c, ErrorResult(TRUE))
          [] pdf = "no_text" -> Returns(c, ErrorResult(FALSE))
          [] ~ configured    -> Returns(c, ErrorResult(FALSE))
          [] OTHER           -> [c EXCEPT !.pc = "request"]

InitExtract ==
    /\ st = InvoiceProcessingStatus
    /\ mongo = [f \in Files |-> NoDocument]
    /\ drive = <<>>
    /\ run = [p \in Procs |-> IdleRun]
    /\ vstore = EmptyCollection
    /\ lastSync = NoSync
    /\ statusStore = [f \in Files |-> NoStatus]
    /\ ceilings = [ocr |-> DefaultMaxRetries, chat |-> DefaultMaxRetries]
    /\ lastRetry = NoRetry
    /\ redriven = [f \in Files |-> 0]
    /\ lastIndex = NoIndex
    /\ statusFiles = EmptyDirectory
    /\ saver = [p \in Procs |-> IdleSaver]
    /\ lastCall = NoCall
    /\ llm = IdleLlm
    /\ analytics = NoReport

ExtractInvoice ==
    /\ llm.pc \in {"idle", "done"}
    /\ \E provider \in Providers, pdf \in PdfOutcomes, configured \in BOOLEAN :
          /\ (provider = "ollama" => configured)
          /\ llm' = extract_invoice(provider, pdf, configured)
    /\ UNCHANGED <<st, mongo, drive, run, vstore, lastSync, retryVars, lastIndex,
                   storeVars, analytics>>

LlmRequest ==
    /\ llm.pc = "request"
    /\ \E outcome \in RequestOutcomes :
          llm' = IF llm.provider = "ollama"
                 THEN call_ollama(llm, outcome, LlmMaxRetries)
                 ELSE call_gemini(llm, outcome, LlmMaxRetries)
    /\ UNCHANGED <<st, mongo, drive, run, vstore, lastSync, retryVars, lastIndex,
                   storeVars, analytics>>

NextExtract ==
    \/ ExtractInvoice
    \/ LlmRequest

SpecExtract == InitExtract /\ [][NextExtract]_vars

\* every request is answered or times out (timeout=45, timeout=60) and every
\* sleep ends
FairExtract == SpecExtract /\ WF_vars(LlmRequest)

(***************************************************************************)
(* SpecAnalytics: get_analytics over the invoice metadata of the Chroma    *)
(* collection (orchestrator.py, retriever.py).  Amounts are whole numbers; *)
(* an invoice date is an ISO date of a month, a date in another format, or *)
(* empty.  averageInvoice, spendByCategory, quarterlyTrend and the         *)
(* summary text are left out of the report.                                *)
(***************************************************************************)
\* months a stored invoice date can name, counted from the first month
MaxMonths == 13

\* sorted_months[-3:] and sorted_months[-12:]
QuarterWindow == 3

YearWindow == 12

AnalyticsVendors == {"acme", "bolt"}

Periods == {"month", "quarter", "year", "all"}

IsoDate(m) == [format |-> "iso", month |-> m]

TextDate(m) == [format |-> "text", month |-> m]

NoDate == [format |-> "none", month |-> 0]

\* datetime.fromisoformat(date_str[:10]) followed by strftime("%Y-%m"):
\* 0 stands for the dt = None of an empty or unparseable date
month_of(invoice_date) ==
    IF invoice_date.format = "iso" THEN invoice_date.month ELSE 0

\* the metadata _create_invoice_chunk stores; line_items are the amounts of
\* the line items, total_amount is 0 when the invoice total was missing
InvoiceMeta(id, user_id, vendor_name, date, amount, items) ==
    [chunk_id |-> id, user_id |-> user_id, vendor_name |-> vendor_name,
     type |-> "invoice", total_amount |-> amount, invoice_date |-> date,
     line_items |-> items]

\* the metadata _create_vendor_summary_chunk stores; no analytics read takes
\* the total of a summary chunk, 0 here
SummaryMeta(id, user_id, vendor_name) ==
    [chunk_id |-> id, user_id |-> user_id, vendor_name |-> vendor_name,
     type |-> "vendor_summary", total_amount |-> 0, invoice_date |-> NoDate,
     line_items |-> <<>>]

RECURSIVE SumSeq(_)
SumSeq(q) == IF q = <<>> THEN 0 ELSE Head(q) + SumSeq(Tail(q))

\* get_vendor_spend_totals: the parsed total_amount, or the sum of the line
\* item amounts when the total is zero and that sum is positive
spend_amount(meta) ==
    IF meta.total_amount = 0 /\ meta.line_items # <<>> /\ SumSeq(meta.line_items) > 0
    THEN SumSeq(meta.line_items)
    ELSE meta.total_amount

RECURSIVE SpendOf(_)
SpendOf(metas) ==
    IF metas = {} THEN 0
    ELSE LET m == CHOOSE x \in metas : TRUE
         IN  spend_amount(m) + SpendOf(metas \ {m})

\* get_analytics: float(str(amount_raw).replace(",", "")) of total_amount
RECURSIVE TrendOf(_)
TrendOf(metas) ==
    IF metas = {} THEN 0
    ELSE LET m == CHOOSE x \in metas : TRUE
         IN  m.total_amount + TrendOf(metas \ {m})

\* the rows of get_vendor_spend_totals before the sort: one per vendor with
\* invoice chunks, then the vendors that only have other chunks
spend_rows(c, user_id) ==
    LET invoices == get_vendor_spend_totals(c, user_id)
        all_vendors == {e.vendor_name : e \in WhereUser(c, user_id, "")}
        totals == {e.vendor_name : e \in invoices}
        of(v) == {e \in invoices : e.vendor_name = v}
    IN  {[vendor_name |-> v, total_spend |-> SpendOf(of(v)),
          invoice_count |-> Cardinality(of(v))] : v \in totals}
        \cup {[vendor_name |-> zv, total_spend |-> 0, invoice_count |-> 0] :
                 zv \in all_vendors \ totals}

\* ranking.sort(key=total_spend, reverse=True): the order of vendors with
\* equal totals is the order the collection returned them in, any order here
spend_rankings(rows) ==
    {q \in [1..Cardinality(rows) -> rows] :
        /\ \A i, j \in DOMAIN q : i # j => q[i] # q[j]
        /\ \A i, j \in DOMAIN q : i < j => q[i].total_spend >= q[j].total_spend}

RECURSIVE SumSpend(_)
SumSpend(ranking) ==
    IF ranking = <<>> THEN 0 ELSE Head(ranking).total_spend + SumSpend(Tail(ranking))

RECURSIVE SumCount(_)
SumCount(ranking) ==
    IF ranking = <<>> THEN 0 ELSE Head(ranking).invoice_count + SumCount(Tail(ranking))

\* sorted(monthly_totals.keys())
RECURSIVE SortedMonths(_)
SortedMonths(months) ==
    IF months = {} THEN <<>>
    ELSE LET m == CHOOSE x \in months : \A y \in months : x <= y
         IN  <<m>> \o SortedMonths(months \ {m})

\* sorted_months[-n:]
LastOf(q, n) == IF Len(q) <= n THEN q ELSE SubSeq(q, Len(q) - n + 1, Len(q))

window(sorted_months, period) ==
    CASE period = "month" -> (IF sorted_months = <<>> THEN <<>> ELSE LastOf(sorted_months, 1))
      [] period = "quarter" -> LastOf(sorted_months, QuarterWindow)
      [] period = "year" -> LastOf(sorted_months, YearWindow)
      [] OTHER -> sorted_months

\* monthlyTrend of get_analytics
monthly_trend(c, user_id, period) ==
    LET raw == {e \in get_all_by_user(c, user_id, "") : e.type = "invoice"}
        dated == {e \in raw : month_of(e.invoice_date) # 0}
        filtered == window(SortedMonths({month_of(e.invoice_date) : e \in dated}), period)
    IN  [i \in 1..Len(filtered) |->
            [name |-> filtered[i],
             value |-> TrendOf({e \in dated : month_of(e.invoice_date) = filtered[i]})]]

\* get_analytics with the ranking in the order the sort left it
get_analytics(c, user_id, period, spend_ranking) ==
    IF spend_ranking = <<>>
    THEN [op |-> "get_analytics", user_id |-> user_id, period |-> period,
          success |-> FALSE]
    ELSE LET total_spend_all == SumSpend(spend_ranking)
             counted == SumCount(spend_ranking)
             total_invoices_all == IF counted = 0 THEN 1 ELSE counted
             highest == spend_ranking[1]
         IN  [op |-> "get_analytics", user_id |-> user_id, period |-> period,
              success |-> TRUE,
              highestSpend |-> [vendor |-> highest.vendor_name,
                                amount |-> highest.total_spend],
              totalSpend |-> total_spend_all,
              totalInvoices |-> total_invoices_all,
              vendorCount |-> Len(spend_ranking),
              monthlyTrend |-> monthly_trend(c, user_id, period),
              topVendors |-> [i \in 1..Len(spend_ranking) |->
                                 [name |-> spend_ranking[i].vendor_name,
                                  value |-> spend_ranking[i].total_spend]]]

\* one invoice of 10 per month for "u1" and "acme", months 1..k
MonthlyInvoices(k) ==
    {InvoiceMeta(m, "u1", "acme", IsoDate(m), 10, <<>>) : m \in 1..k}

\* the chunk a further indexing call leaves under the given id
FurtherChunks(id) ==
    {InvoiceMeta(id, u, v, d, a, items) :
        u \in Users, v \in AnalyticsVendors,
        d \in {IsoDate(1), IsoDate(MaxMonths), TextDate(1)},
        a \in {0, 20}, items \in {<<>>, <<5>>}}
    \cup {SummaryMeta(id, u, v) : u \in Users, v \in AnalyticsVendors}

NoneOrOne(S) == {{}} \cup {{e} : e \in S}

AsCollection(metas) ==
    [id \in {e.chunk_id : e \in metas} |-> CHOOSE e \in metas : e.chunk_id = id]

InitAnalytics ==
    /\ st = InvoiceProcessingStatus
    /\ mongo = [f \in Files |-> NoDocument]
    /\ drive = <<>>
    /\ run = [p \in Procs |-> IdleRun]
    /\ \E k \in 0..MaxMonths :
          \E x \in NoneOrOne(FurtherChunks(MaxMonths + 1)),
             y \in NoneOrOne(FurtherChunks(MaxMonths + 2)) :
             vstore = AsCollection(MonthlyInvoices(k) \cup x \cup y)
    /\ lastSync = NoSync
    /\ statusStore = [f \in Files |-> NoStatus]
    /\ ceilings = [ocr |-> DefaultMaxRetries, chat |-> DefaultMaxRetries]
    /\ lastRetry = NoRetry
    /\ redriven = [f \in Files |-> 0]
    /\ lastIndex = NoIndex
    /\ statusFiles = EmptyDirectory
    /\ saver = [p \in Procs |-> IdleSaver]
    /\ lastCall = NoCall
    /\ llm = IdleLlm
    /\ analytics = NoReport

GetAnalytics ==
    /\ \E user_id \in Users, period \in Periods :
          \E spend_ranking \in spend_rankings(spend_rows(vstore, user_id)) :
             analytics' = get_analytics(vstore, user_id, period, spend_ranking)
    /\ UNCHANGED <<st, mongo, drive, run, vstore, lastSync, retryVars, lastIndex,
                   storeVars, llm>>

NextAnalytics == GetAnalytics

SpecAnalytics == InitAnalytics /\ [][NextAnalytics]_vars

(***************************************************************************)
(* SpecPurge and SpecCatchUp: the documents collection, the master.json of *)
(* each user's vendor folder and the Chroma collection under OCR runs,     *)
(* POST /sync and DELETE /user/{user_id}/data (chat.py, db.py).  Here      *)
(* mongo maps a user to that user's documents and drive maps a user to the *)
(* records of the master.json in the user's vendor folder.  A run of the   *)
(* OCR service on one file is a single step with its outcome: the          *)
(* document is COMPLETED or FAILED, and the record is in master.json or,   *)
(* when the upload failed, is not.                                         *)
(***************************************************************************)
\* vendorFolderId of a document: the folder id the request gave, or None
FolderIds == {"folder", "none"}

\* a document of the collection with the fields POST /sync reads
DocumentOf(ocr_status, indexed, vendor_folder_id) ==
    [ocrStatus |-> ocr_status, indexed |-> indexed,
     vendorFolderId |-> vendor_folder_id]

\* upsert_document: $set of vendorFolderId, $setOnInsert of the rest
upsert_document(docs, f, vendor_folder_id) ==
    IF docs[f].ocrStatus = "ABSENT"
    THEN [docs EXCEPT ![f] = DocumentOf("PENDING", FALSE, vendor_folder_id)]
    ELSE [docs EXCEPT ![f].vendorFolderId = vendor_folder_id]

\* mutant of reset_user_index: the filter on ocrStatus is dropped
reset_user_indexAnyStatus(docs) ==
    [f \in DOMAIN docs |->
        IF docs[f].ocrStatus # "ABSENT"
        THEN [docs[f] EXCEPT !.indexed = FALSE] ELSE docs[f]]

\* reset_user_index on the documents of the user
reset_user_index(docs) ==
    [f \in DOMAIN docs |->
        IF docs[f].ocrStatus = "COMPLETED"
        THEN [docs[f] EXCEPT !.indexed = FALSE] ELSE docs[f]]

\* a record of master.json with the invoice number the OCR read
MasterRecord(f, n) == [drive_file_id |-> f, invoice_number |-> n]

\* _create_invoice_chunk with the drive_file_id of its metadata
InvoiceChunkOf(record, user_id) ==
    [chunk_id |-> ChunkId(record.invoice_number), user_id |-> user_id,
     vendor_name |-> VendorName, type |-> "invoice",
     drive_file_id |-> record.drive_file_id]

SummaryChunkOf(user_id) ==
    [chunk_id |-> ChunkId("summary"), user_id |-> user_id,
     vendor_name |-> VendorName, type |-> "vendor_summary",
     drive_file_id |-> ""]

\* POST /sync for one user: docs the user's documents, master the records
\* of the vendor's master.json, fetch_ok FALSE when the email service did
\* not return them, embed_ok FALSE when generate_embeddings raised
sync_user(docs, master, vs, user_id, fetch_ok, embed_ok, add_existing) ==
    LET unindexed == get_unindexed_documents(docs)
        grouped == {f \in unindexed : docs[f].vendorFolderId # "none"}
        master_records == IF fetch_ok THEN master ELSE <<>>
        chunks == <<SummaryChunkOf(user_id)>>
                  \o [i \in 1..Len(master_records) |->
                         InvoiceChunkOf(master_records[i], user_id)]
        result == IF embed_ok THEN store_embeddings(vs, chunks, add_existing)
                  ELSE [collection |-> vs, success |-> FALSE, written |-> {}]
        done(outcome, vs2, ids) ==
            [docs |-> mark_documents_indexed(docs, ids), vstore |-> vs2,
             response |-> [op |-> "sync", user_id |-> user_id,
                           outcome |-> outcome, docs |-> ids]]
    IN  IF unindexed = {} THEN done("no documents pending", vs, {})
        ELSE IF grouped = {} THEN done("indexed", vs, {})
        ELSE IF master_records = <<>> THEN done("indexed", vs, {})
        ELSE IF ~ result.success THEN done("indexed", vs, {})
        ELSE done("indexed", result.collection, grouped)

\* no request was served yet
NoRequest == [op |-> "none", user_id |-> "none", outcome |-> "none", docs |-> {}]

\* the invoice numbers the OCR reads: one number per file, or any number
OwnNumbers == [f \in Files |-> {IF f = "f1" THEN "n1" ELSE "n2"}]

AnyNumbers == [f \in Files |-> InvoiceNumbers]

InitPurge ==
    /\ st = InvoiceProcessingStatus
    /\ mongo = [u \in Users |-> [f \in Files |-> DocumentOf("ABSENT", FALSE, "none")]]
    /\ drive = [u \in Users |-> <<>>]
    /\ run = [p \in Procs |-> IdleRun]
    /\ vstore = EmptyCollection
    /\ lastSync = NoRequest
    /\ statusStore = [f \in Files |-> NoStatus]
    /\ ceilings = [ocr |-> DefaultMaxRetries, chat |-> DefaultMaxRetries]
    /\ lastRetry = NoRetry
    /\ redriven = [f \in Files |-> 0]
    /\ lastIndex = NoIndex
    /\ statusFiles = EmptyDirectory
    /\ saver = [p \in Procs |-> IdleSaver]
    /\ lastCall = NoCall
    /\ llm = IdleLlm
    /\ analytics = NoReport

\* the OCR service took the file of a user through upsert_document and
\* process_vendor_invoices: the document is COMPLETED, and its record is
\* merged into master.json unless the upload failed (saved = FALSE)
OcrCompletes(users, numbers, folders, saves) ==
    /\ \E user_id \in users, f \in Files, vendor_folder_id \in folders,
          saved \in saves :
          \E n \in numbers[f] :
          /\ mongo' = [mongo EXCEPT ![user_id] =
                          update_ocr_status(
                              upsert_document(mongo[user_id], f, vendor_folder_id),
                              f, "COMPLETED")]
          /\ drive' = [drive EXCEPT ![user_id] =
                          IF saved
                          THEN MergeRecord(drive[user_id], Ids(drive[user_id]), f,
                                           MasterRecord(f, n))
                          ELSE drive[user_id]]
          /\ lastSync' = [op |-> "ocr", user_id |-> user_id,
                          outcome |-> "COMPLETED", docs |-> {f}]
    /\ UNCHANGED <<st, run, vstore, retryVars, otherVars>>

\* a run on a file that has a document ended with update_ocr_status(FAILED)
OcrFails(users) ==
    /\ \E user_id \in users, f \in Files :
          /\ mongo[user_id][f].ocrStatus # "ABSENT"
          /\ mongo' = [mongo EXCEPT ![user_id] =
                          update_ocr_status(mongo[user_id], f, "FAILED")]
          /\ lastSync' = [op |-> "ocr", user_id |-> user_id,
                          outcome |-> "FAILED", docs |-> {f}]
    /\ UNCHANGED <<st, drive, run, vstore, retryVars, otherVars>>

\* POST /sync
SyncOutcome(user_id, fetch_ok, embed_ok, add_existing) ==
    LET r == sync_user(mongo[user_id], drive[user_id], vstore, user_id,
                       fetch_ok, embed_ok, add_existing)
    IN  /\ mongo' = [mongo EXCEPT ![user_id] = r.docs]
        /\ vstore' = r.vstore
        /\ lastSync' = r.response
        /\ UNCHANGED <<st, drive, run, retryVars, otherVars>>

SyncUserDocuments(users) ==
    \E user_id \in users, fetch_ok \in BOOLEAN, embed_ok \in BOOLEAN,
       add_existing \in AddPolicies :
       SyncOutcome(user_id, fetch_ok, embed_ok, add_existing)

\* DELETE /user/{user_id}/data: deleted is FALSE when the collection raised
DeleteUserData(users) ==
    /\ \E user_id \in users, deleted \in BOOLEAN :
          /\ vstore' = IF deleted THEN delete_user_data(vstore, user_id) ELSE vstore
          /\ mongo' = [mongo EXCEPT ![user_id] = reset_user_index(mongo[user_id])]
          /\ lastSync' = [op |-> "delete", user_id |-> user_id,
                          outcome |-> IF deleted THEN "deleted" ELSE "failed",
                          docs |-> {}]
    /\ UNCHANGED <<st, drive, run, retryVars, otherVars>>

PurgeCompletes == OcrCompletes(Users, OwnNumbers, {"folder"}, {TRUE})

PurgeFails == OcrFails(Users)

PurgeSync == SyncUserDocuments(Users)

PurgeDelete == DeleteUserData(Users)

NextPurge ==
    \/ PurgeCompletes
    \/ PurgeFails
    \/ PurgeSync
    \/ PurgeDelete

SpecPurge == InitPurge /\ [][NextPurge]_vars

\* SpecCatchUp: one user; a document may lack its vendorFolderId, two files
\* may carry the same invoice number, and the upload of master.json may fail
CatchUpCompletes == OcrCompletes({PipelineUser}, AnyNumbers, FolderIds, BOOLEAN)

CatchUpSync == SyncUserDocuments({PipelineUser})

\* a sync whose calls of the email service, the embedder and Chroma succeed
CatchUpSyncSucceeds == SyncOutcome(PipelineUser, TRUE, TRUE, "ignored")

NextCatchUp ==
    \/ CatchUpCompletes
    \/ CatchUpSync

SpecCatchUp == InitPurge /\ [][NextCatchUp]_vars

\* syncs keep being triggered and their external calls succeed
FairCatchUp == SpecCatchUp /\ WF_vars(CatchUpSyncSucceeds)

(***************************************************************************)
(* SpecSave: _upload_master_to_drive is called again and again on one      *)
(* folder; run[1] holds the content handed to the latest call and what it  *)
(* returned.                                                               *)
(***************************************************************************)
InitSave ==
    /\ st = InvoiceProcessingStatus
    /\ mongo = [f \in Files |-> NoDocument]
    /\ drive \in {<<>>} \cup {<<l>> : l \in InitialMasters}
    /\ run = [p \in Procs |-> IdleRun]
    /\ vstore = EmptyCollection
    /\ lastSync = NoSync
    /\ statusStore = [f \in Files |-> NoStatus]
    /\ ceilings = [ocr |-> DefaultMaxRetries, chat |-> DefaultMaxRetries]
    /\ lastRetry = NoRetry
    /\ redriven = [f \in Files |-> 0]
    /\ lastIndex = NoIndex
    /\ statusFiles = EmptyDirectory
    /\ saver = [p \in Procs |-> IdleSaver]
    /\ lastCall = NoCall
    /\ llm = IdleLlm
    /\ analytics = NoReport

\* one call: the delete loop removes the first `deleted` files and ends or
\* raises, then files().create succeeds or raises
UploadMaster ==
    /\ \E content \in InitialMasters, deleted \in 0..Len(drive), created \in BOOLEAN :
          LET up == _upload_master_to_drive(drive, content, deleted, created)
          IN  /\ Len(up.drive) <= MaxFolderFiles
              /\ drive' = up.drive
              /\ run' = [run EXCEPT ![1] =
                            [IdleRun EXCEPT !.pc = "complete",
                                            !.master_records = content,
                                            !.master_json_path = up.path]]
    /\ UNCHANGED <<st, mongo, vstore, lastSync, retryVars, otherVars>>

NextSave == UploadMaster

SpecSave == InitSave /\ [][NextSave]_vars

(***************************************************************************)
(* SpecStatus: any sequence of transition methods on one record.           *)
(***************************************************************************)
InitStatus ==
    /\ st = InvoiceProcessingStatus
    /\ mongo = [f \in Files |-> NoDocument]
    /\ drive = <<>>
    /\ run = [p \in Procs |-> IdleRun]
    /\ vstore = EmptyCollection
    /\ lastSync = NoSync
    /\ statusStore = [f \in Files |-> NoStatus]
    /\ ceilings = [ocr |-> DefaultMaxRetries, chat |-> DefaultMaxRetries]
    /\ lastRetry = NoRetry
    /\ redriven = [f \in Files |-> 0]
    /\ lastIndex = NoIndex
    /\ statusFiles = EmptyDirectory
    /\ saver = [p \in Procs |-> IdleSaver]
    /\ lastCall = NoCall
    /\ llm = IdleLlm
    /\ analytics = NoReport

MarkDownloading ==
    /\ st' = mark_downloading(st)
    /\ UNCHANGED <<mongo, drive, run, vstore, lastSync, retryVars, otherVars>>

MarkOcrProcessing ==
    /\ st.ocr_attempt_count < MaxAttempts
    /\ st' = mark_ocr_processing(st)
    /\ UNCHANGED <<mongo, drive, run, vstore, lastSync, retryVars, otherVars>>

MarkOcrSuccess ==
    /\ st' = mark_ocr_success(st)
    /\ UNCHANGED <<mongo, drive, run, vstore, lastSync, retryVars, otherVars>>

MarkOcrFailed ==
    /\ Len(st.errors) < MaxErrors
    /\ \E retryable \in BOOLEAN : st' = mark_ocr_failed(st, retryable)
    /\ UNCHANGED <<mongo, drive, run, vstore, lastSync, retryVars, otherVars>>

MarkChatIndexing ==
    /\ st.chat_attempt_count < MaxAttempts
    /\ st' = mark_chat_indexing(st)
    /\ UNCHANGED <<mongo, drive, run, vstore, lastSync, retryVars, otherVars>>

MarkChatFailed ==
    /\ Len(st.errors) < MaxErrors
    /\ \E retryable \in BOOLEAN : st' = mark_chat_failed(st, retryable)
    /\ UNCHANGED <<mongo, drive, run, vstore, lastSync, retryVars, otherVars>>

MarkCompleted ==
    /\ st' = mark_completed(st)
    /\ UNCHANGED <<mongo, drive, run, vstore, lastSync, retryVars, otherVars>>

NextStatus ==
    \/ MarkDownloading
    \/ MarkOcrProcessing
    \/ MarkOcrSuccess
    \/ MarkOcrFailed
    \/ MarkChatIndexing
    \/ MarkChatFailed
    \/ MarkCompleted

SpecStatus == InitStatus /\ [][NextStatus]_vars

(***************************************************************************)
(* Claims about the status record                                          *)
(***************************************************************************)
\* the lifecycle graph of the class docstring, with the retry edges
GraphEdges ==
    { <<"PENDING", "DOWNLOADING">>, <<"DOWNLOADING", "OCR_PROCESSING">>,
      <<"DOWNLOADING", "OCR_FAILED">>,
      <<"OCR_PROCESSING", "OCR_SUCCESS">>, <<"OCR_PROCESSING", "OCR_FAILED">>,
      <<"OCR_SUCCESS", "CHAT_INDEXING">>,
      <<"CHAT_INDEXING", "COMPLETED">>, <<"CHAT_INDEXING", "CHAT_FAILED">>,
      <<"OCR_FAILED", "DOWNLOADING">>, <<"OCR_FAILED", "OCR_PROCESSING">>,
      <<"CHAT_FAILED", "CHAT_INDEXING">> }

\* C1: every change of status made by a transition method follows an edge of
\* the lifecycle graph (so CHAT_INDEXING is only entered from OCR_SUCCESS or,
\* on a retry, from CHAT_FAILED).
C1_StatusFollowsGraph ==
    [][st'.status # st.status => <<st.status, st'.status>> \in GraphEdges]_vars

LastErrorRetryable(s) ==
    /\ Len(s.errors) > 0
    /\ s.errors[Len(s.errors)].retryable

\* C3: should_retry_ocr / should_retry_chat hold exactly when the status is the
\* matching failure state, the attempt counter is below the ceiling and the
\* most recent error entry is retryable; earlier entries do not matter.
C3_RetryEligibility ==
    \A m \in 0..MaxCeiling :
        /\ should_retry_ocr(st, m) <=>
              (st.status = "OCR_FAILED" /\ st.ocr_attempt_count < m
                 /\ LastErrorRetryable(st))
        /\ should_retry_chat(st, m) <=>
              (st.status = "CHAT_FAILED" /\ st.chat_attempt_count < m
                 /\ LastErrorRetryable(st))

\* C3 witness: failed non-retryably, then retryably, and is eligible again
C3_Witness ==
    /\ Len(st.errors) >= 2
    /\ ~ st.errors[1].retryable
    /\ st.errors[Len(st.errors)].retryable
    /\ should_retry_ocr(st, MaxCeiling)

(***************************************************************************)
(* Claims about the retry orchestrator (SpecRetry)                         *)
(***************************************************************************)
InSeq(x, q) == \E i \in 1..Len(q) : q[i] = x

\* C2: a document in OCR_FAILED whose OCR failed again in the run that just
\* ended has been handed to process_vendor_invoices by retry calls at most
\* max_ocr_retries times in total.
C2_RedrivesBoundedByCeiling ==
    \A f \in Files :
        (/\ statusStore[f].status = "OCR_FAILED"
         /\ run[1].pc = "done"
         /\ InSeq(Skip("ocr failed", f), run[1].skipped))
        => redriven[f] <= ceilings.ocr

\* C4: after a retry call, a failed document in its scope whose last error is
\* retryable is in the retried batch exactly when its attempt counter is
\* strictly below the ceiling of its phase, and is counted in
\* max_retries_reached exactly when the counter has reached the ceiling; the
\* batch handed to the pipeline is the retried list.
C4_RetriedIffBelowCeiling ==
    lastRetry.called =>
        /\ \A f \in Files :
              LET s == statusStore[f]
                  retried == InSeq(f, lastRetry.retryable)
                  reached == f \in lastRetry.max_retries_reached
              IN  (/\ lastRetry.scope # {} => f \in lastRetry.scope
                   /\ LastErrorRetryable(s))
                  => /\ s.status = "OCR_FAILED" =>
                           /\ retried <=> s.ocr_attempt_count < ceilings.ocr
                           /\ reached <=> s.ocr_attempt_count >= ceilings.ocr
                     /\ s.status = "CHAT_FAILED" =>
                           /\ retried <=> s.chat_attempt_count < ceilings.chat
                           /\ reached <=> s.chat_attempt_count >= ceilings.chat
        /\ lastRetry.retryable # <<>> => run[1].batch = lastRetry.retryable

\* C4 witness: one call leaves out a document whose counter equals the
\* ceiling and retries another whose counter is one below it
C4_Witness ==
    /\ lastRetry.called
    /\ \E f, g \in Files :
          /\ statusStore[f].status = "OCR_FAILED"
          /\ LastErrorRetryable(statusStore[f])
          /\ statusStore[f].ocr_attempt_count = ceilings.ocr
          /\ f \in lastRetry.max_retries_reached
          /\ statusStore[g].status = "OCR_FAILED"
          /\ statusStore[g].ocr_attempt_count = ceilings.ocr - 1
          /\ lastRetry.retryable = <<g>>
          /\ run[1].batch = <<g>>

(***************************************************************************)
(* Claims about the record list and the pipeline (Spec, SpecRace)          *)
(***************************************************************************)
\* the run of worker p has uploaded its merged list
Saved(p) == run[p].pc \in {"complete", "done"} /\ run[p].master_json_path

\* C5: when the list a run loaded has one entry per drive_file_id, the list it
\* saves has one entry per drive_file_id too, every loaded entry keeps its
\* position, and the entry of a re-processed file holds the new record.
C5_MergeKeepsIdsUnique ==
    LET r == run[1]
    IN  (Saved(1) /\ UniqueIds(r.loaded)) =>
           /\ drive # <<>> /\ drive[Len(drive)] = r.master_records
           /\ UniqueIds(r.master_records)
           /\ Len(r.master_records) >= Len(r.loaded)
           /\ \A i \in 1..Len(r.loaded) :
                 r.master_records[i] =
                    IF InSeq(r.loaded[i].drive_file_id, r.processed)
                    THEN Record(r.loaded[i].drive_file_id, 1)
                    ELSE r.loaded[i]

\* C5 witness: the second of two loaded entries was processed twice in one
\* batch and the merged list was saved
C5_Witness ==
    /\ Saved(1)
    /\ Len(run[1].loaded) = 2
    /\ UniqueIds(run[1].loaded)
    /\ run[1].processed = <<run[1].loaded[2].drive_file_id,
                            run[1].loaded[2].drive_file_id>>

\* C6: a drive_file_id that the loaded list holds twice is held exactly once
\* by the list a run saves.
C6_DuplicatesCollapseOnSave ==
    Saved(1) =>
        \A f \in Files :
            CountOf(run[1].loaded, f) >= 2 => CountOf(run[1].master_records, f) = 1

C8_ConcurrentRunsLoseNoRecord ==
    (/\ \A p \in Procs : run[p].pc = "done" /\ run[p].load # "failed"
                         /\ UniqueIds(run[p].loaded)
                         /\ (run[p].processed # <<>> => run[p].master_json_path))
    => \A p \in Procs, f \in Files :
          (InSeq(f, run[p].processed) /\ mongo[f].ocrStatus = "COMPLETED")
          => /\ drive # <<>>
             /\ CountOf(drive[Len(drive)], f) = 1

\* C9: when the upload of the merged list failed, no file the run processed
\* is marked COMPLETED.
C9_CompletedOnlyAfterSave ==
    (/\ run[1].pc = "done"
     /\ run[1].processed # <<>>
     /\ ~ run[1].master_json_path)
    => \A f \in Files :
          InSeq(f, run[1].processed) => mongo[f].ocrStatus # "COMPLETED"

\* C10: after a sync whose indexing succeeded the documents of the batch are
\* marked indexed, and after a sync whose indexing failed none of them is
\* left in COMPLETED.
C10_IndexerOutcomeRecorded ==
    /\ lastSync.outcome = "indexed" =>
          \A f \in lastSync.docs : mongo[f].ocrStatus = "COMPLETED" /\ mongo[f].indexed
    /\ lastSync.outcome = "index failed" =>
          \A f \in lastSync.docs : mongo[f].ocrStatus # "COMPLETED"

\* C11: a run that has ended examined every candidate of its batch, whatever
\* failed on the way, and every file it processed is merged and, when it has
\* a document, marked COMPLETED.
C11_FailureDoesNotAbortBatch ==
    (run[1].pc \in {"done", "raised"} /\ run[1].load # "none") =>
        /\ Len(run[1].processed) + Len(run[1].skipped) = Len(run[1].batch)
        /\ \A f \in Files :
              InSeq(f, run[1].processed) =>
                 /\ f \in Ids(run[1].master_records)
                 /\ mongo[f].ocrStatus \in {"COMPLETED", "ABSENT"}

\* C12: a pipeline run that has returned leaves no document of its batch in
\* the in-flight status, also when an earlier run ended while the document
\* was PROCESSING.
C12_InFlightReclaimed ==
    (run[1].pc = "done" /\ run[1].load # "none") =>
        \A f \in Files :
            InSeq(f, run[1].batch) => mongo[f].ocrStatus # "PROCESSING"

\* C13: no step of any run changes a stored status that is COMPLETED.
C13_CompletedIsTerminal ==
    [][\A f \in Files :
          mongo[f].ocrStatus = "COMPLETED" => mongo'[f].ocrStatus = "COMPLETED"]_vars

\* C14: when process_direct_dataset is called for a user right after a
\* successful call with the same record list, user and incremental flag,
\* the second run leaves the set of entry ids of the vector store as the
\* first run left it.
C14_SecondRunAddsNoEntry ==
    [][(/\ lastIndex.op = "index" /\ lastIndex.success
        /\ lastIndex'.op = "index"
        /\ lastIndex'.user_id = lastIndex.user_id
        /\ lastIndex'.invoices = lastIndex.invoices
        /\ lastIndex'.incremental = lastIndex.incremental)
       => DOMAIN vstore' = DOMAIN vstore]_vars

\* a successful second run of a list whose two records map to one chunk id
C14_Witness ==
    /\ lastIndex.op = "index" /\ lastIndex.repeat /\ lastIndex.success
    /\ Len(lastIndex.invoices) = 2
    /\ lastIndex.invoices[1].invoice_number = lastIndex.invoices[2].invoice_number
    /\ \E id \in DOMAIN vstore : id.dup # 0

\* C15: when a list is indexed again after the total_amount of exactly one
\* record changed, no chunk of an unchanged record of the list is embedded or
\* written.
C15_OnlyChangedRecordWritten ==
    (lastIndex.op = "index" /\ lastIndex.success /\ lastIndex.changed # {}) =>
        \A i \in 1..Len(lastIndex.invoices) :
            (\A j \in lastIndex.changed :
                lastIndex.invoices[i].invoice_number
                # lastIndex.invoices[j].invoice_number)
            => lastIndex.invoices[i].invoice_number
               \notin lastIndex.written \cup lastIndex.embedded

UserScopedResults(x, v) ==
    search_similar(vstore, x)
    \cup search_similar_filtered(vstore, x, "")
    \cup search_similar_filtered(vstore, x, v)
    \cup get_all_by_user(vstore, x, "")
    \cup get_all_by_user(vstore, x, v)
    \cup get_vendor_spend_totals(vstore, x)
    \cup get_indexed_sha256_hashes(vstore, x)

\* C17: after any sequence of indexing operations, syncs and purges of the
\* users, no user-scoped query for a user x returns a chunk whose metadata
\* user_id is another user.
C17_UserScopedQueriesIsolated ==
    \A x \in Users : \A e \in UserScopedResults(x, VendorName) : e.user_id = x

\* both users hold chunks of the same vendor and the queries of u1, with and
\* without the vendor filter, return chunks
C17_Witness ==
    /\ \A y \in Users : \E e \in Entries(vstore) :
          e.user_id = y /\ e.vendor_name = VendorName
    /\ search_similar_filtered(vstore, "u1", VendorName) # {}
    /\ get_vendor_spend_totals(vstore, "u1") # {}
    /\ get_indexed_sha256_hashes(vstore, "u1") # {}

\* the users whose chunks a set of entries holds
OwnersOf(entries) == {e.user_id : e \in entries}

\* C18: no read operation of the vector store, the id listing that
\* process_direct_dataset reads included, returns chunks or chunk ids of more
\* than one user.
C18_EveryReadOneUser ==
    /\ Cardinality(OwnersOf(search(vstore))) <= 1
    /\ Cardinality(OwnersOf(search_by_vendor(vstore, VendorName))) <= 1
    /\ Cardinality(OwnersOf(get_all_by_vendor(vstore, VendorName))) <= 1
    /\ Cardinality(OwnersOf(list_vendors(vstore, ""))) <= 1
    /\ Cardinality({vstore[id].user_id : id \in list_ids(vstore)}) <= 1

\* C19: an indexing or sync of a user leaves every chunk stored for another
\* user in the vector store, with unchanged content and metadata.
C19_WritesScopedToUser ==
    [][lastIndex'.op \in {"index", "sync"} =>
          \A id \in DOMAIN vstore :
              vstore[id].user_id # lastIndex'.user_id =>
                  /\ id \in DOMAIN vstore'
                  /\ vstore'[id] = vstore[id]]_vars

\* the records of the status store for a user and a Drive file, each named by
\* its file and its position in it
StatusRecords(user_id, f) ==
    {<<file_path, i>> \in
        UNION {{<<q, k>> : k \in 1..Len(statusFiles[q].statuses)} :
               q \in DOMAIN statusFiles} :
        /\ statusFiles[file_path].statuses[i].user_id = user_id
        /\ statusFiles[file_path].statuses[i].drive_file_id = f}

\* C20: the status store holds at most one status record per pair of user
\* and Drive file.
C20_OneRecordPerUserAndFile ==
    \A f \in Files : Cardinality(StatusRecords(StoreUser, f)) <= 1

\* C21: a step that enters OCR_PROCESSING (a mark_ocr_processing call) adds
\* exactly one to ocr_attempt_count, a step that enters CHAT_INDEXING (a
\* mark_chat_indexing call) adds exactly one to chat_attempt_count, and no
\* other step changes either counter; so each counter is the number of
\* calls made so far and never decreases.
C21_CountersCountCalls ==
    [][/\ st'.ocr_attempt_count =
             IF st'.status = "OCR_PROCESSING" /\ st' # st
             THEN st.ocr_attempt_count + 1 ELSE st.ocr_attempt_count
       /\ st'.chat_attempt_count =
             IF st'.status = "CHAT_INDEXING" /\ st' # st
             THEN st.chat_attempt_count + 1 ELSE st.chat_attempt_count]_vars

\* two OCR attempts, one chat attempt and a failure in between are behind
\* a completed record
C21_Witness ==
    /\ st.status = "COMPLETED"
    /\ st.ocr_attempt_count = 2
    /\ st.chat_attempt_count = 1
    /\ Len(st.errors) = 1

\* C22: applied to any record the transition methods produce, mark_ocr_failed
\* and mark_chat_failed leave the error list as it was with one entry added
\* at the end, tagged with the phase of the method and the retryable flag
\* given; every other method leaves the list as it was.
C22_ErrorLogAppendOnly ==
    /\ \A retryable \in BOOLEAN :
          /\ mark_ocr_failed(st, retryable).errors
                = Append(st.errors, [phase |-> "ocr", retryable |-> retryable])
          /\ mark_chat_failed(st, retryable).errors
                = Append(st.errors, [phase |-> "chat", retryable |-> retryable])
    /\ mark_downloading(st).errors = st.errors
    /\ mark_ocr_processing(st).errors = st.errors
    /\ mark_ocr_success(st).errors = st.errors
    /\ mark_chat_indexing(st).errors = st.errors
    /\ mark_completed(st).errors = st.errors

\* a record that failed in OCR twice, with different retryable flags
C22_Witness ==
    /\ st.status = "OCR_FAILED"
    /\ Len(st.errors) = 2
    /\ st.errors[1] = [phase |-> "ocr", retryable |-> FALSE]
    /\ st.errors[2] = [phase |-> "ocr", retryable |-> TRUE]

\* C23: a run that found no master.json in the folder loaded the empty list
\* and went on: when it has returned, every file of its batch was processed
\* or skipped, and the list it saved holds one record for each file it
\* processed and nothing else.
C23_AbsentMasterIsEmptyList ==
    run[1].load = "absent" =>
        /\ run[1].loaded = <<>>
        /\ run[1].pc = "done" =>
              Len(run[1].processed) + Len(run[1].skipped) = Len(run[1].batch)
        /\ Saved(1) =>
              /\ drive = <<run[1].master_records>>
              /\ UniqueIds(run[1].master_records)
              /\ Ids(run[1].master_records)
                    = {run[1].processed[i] : i \in 1..Len(run[1].processed)}

\* the first run on a folder without master.json processed one file of two
\* and saved
C23_Witness ==
    /\ run[1].load = "absent"
    /\ run[1].pc = "done"
    /\ Saved(1)
    /\ Len(run[1].batch) = 2
    /\ Len(run[1].processed) = 1
    /\ Len(drive[1]) = 1

\* C24: after a save that succeeded (a path was returned) the folder holds
\* exactly one file named master.json, with the saved content.
C24_SaveLeavesOneFile ==
    (run[1].pc = "complete" /\ run[1].master_json_path) =>
        drive = <<run[1].master_records>>

\* C25: the step in which the download of a file fails adds the file to the
\* skipped list, merges no record, calls no OCR (the loop goes on to the next
\* file), and leaves the document recorded as OCR-failed with a last error
\* that is marked retryable.
C25_DownloadFailureRecorded ==
    [][(/\ run[1].pc = "download"
        /\ run'[1].skipped
              = Append(run[1].skipped, Skip("download failed", run[1].cur)))
       => /\ run'[1].pc = "check"
          /\ run'[1].master_records = run[1].master_records
          /\ run'[1].processed = run[1].processed
          /\ statusStore'[run[1].cur].status = "OCR_FAILED"
          /\ LastErrorRetryable(statusStore'[run[1].cur])]_vars

\* C26: the step in which the OCR collaborator returns {error, retryable}
\* leaves the document in a failed state that the retry-eligibility predicate
\* accepts exactly when the collaborator's flag is true.
C26_OcrErrorKeepsRetryableFlag ==
    [][\A retryable \in BOOLEAN :
          (/\ run[1].pc = "ocr"
           /\ [run |-> run'[1], mongo |-> mongo', drive |-> drive']
                 = OcrStep(World(1), ErrorResult(retryable), 1))
          => /\ statusStore'[run[1].cur].status = "OCR_FAILED"
             /\ is_retryable(statusStore'[run[1].cur]) <=> retryable]_vars

\* the status records the directory holds
AllStatusRecords(dir) ==
    UNION {{dir[q].statuses[i] : i \in 1..Len(dir[q].statuses)} : q \in DOMAIN dir}

\* the status records of one user, each with the file that holds it
RecordsOfUser(dir, user_id) ==
    {<<q, r>> \in UNION {{<<p, dir[p].statuses[i]>> : i \in 1..Len(dir[p].statuses)} :
                            p \in DOMAIN dir} :
        r.user_id = user_id}

\* C27: every candidate file a retry hands to the pipeline has the
\* drive_file_id of a status record of the calling user that is in OCR_FAILED
\* or CHAT_FAILED, is retry-eligible and lies within the vendor and the file
\* ids the caller gave; the candidate is grouped under that record's own
\* vendor name and folder.
C27_RetryPassesKnownFailures ==
    lastCall.op = "retry" =>
        \A c \in lastCall.batches :
            \E r \in AllStatusRecords(statusFiles) :
                /\ r.user_id = lastCall.user_id
                /\ r.drive_file_id = c.drive_file_id
                /\ failed_and_retryable(r)
                /\ (lastCall.drive_file_ids # {}
                       => r.drive_file_id \in lastCall.drive_file_ids)
                /\ (lastCall.vendor_name # NoVendor
                       => r.vendor_name = lastCall.vendor_name)
                /\ c.vendor_name = r.vendor_name
                /\ c.invoice_folder_id = r.invoice_folder_id

\* C28: a clear of user u that succeeds leaves no status record of u, and a
\* clear of u leaves every status record of every other user where it was.
C28_ClearScopedToUser ==
    [][lastCall'.op = "clear" =>
          /\ (lastCall'.success
                 => RecordsOfUser(statusFiles', lastCall'.user_id) = {})
          /\ \A other \in ScopeUsers \ {lastCall'.user_id} :
                RecordsOfUser(statusFiles', other)
                    = RecordsOfUser(statusFiles, other)]_vars

\* what the latest request of the call ended in
LastOutcome ==
    IF llm.outcomes = <<>> THEN "none" ELSE llm.outcomes[Len(llm.outcomes)]

\* C29: the extraction endpoint classifies every failure outcome: model text
\* that is not JSON (with or without braces), an empty text and a PDF without
\* text give an error with retryable = false; a timeout, a 5xx and a 429 that
\* outlast the retries give an error with retryable = true.
C29_FailuresClassified ==
    llm.pc = "done" =>
        /\ (llm.pdf = "no_text" => llm.result = ErrorResult(FALSE))
        /\ (LastOutcome \in {"braces", "plain", "empty"}
               => llm.result = ErrorResult(FALSE))
        /\ (LastOutcome \in {"timeout", "5xx", "429"}
               => llm.result = ErrorResult(TRUE))

\* the outcomes that call_gemini answers with a sleep and another request
RetriedOutcomes == {"timeout", "5xx", "429"}

\* the call of call_gemini made so far keeps within its retry budget, and a
\* call that saw nothing but 429, 5xx and timeouts ended only after the last
\* allowed attempt, with an error dict that is retryable
WithinRetryBudget ==
    llm.provider = "gemini" =>
        /\ Len(llm.outcomes) <= LlmMaxRetries + 1
        /\ Len(llm.delays) <= LlmMaxRetries
        /\ \A k \in 1..Len(llm.delays) :
              /\ llm.delays[k] = base_delay * (2 ^ (k - 1))
              /\ k <= 3 => llm.delays[k] = <<2, 4, 8>>[k]
        /\ (llm.pc = "request" => Len(llm.delays) = Len(llm.outcomes))
        /\ llm.result # "raised"
        /\ ((/\ llm.pc = "done"
             /\ llm.outcomes # <<>>
             /\ \A k \in 1..Len(llm.outcomes) : llm.outcomes[k] \in RetriedOutcomes)
               => /\ Len(llm.outcomes) = LlmMaxRetries + 1
                  /\ Len(llm.delays) = LlmMaxRetries
                  /\ llm.result = ErrorResult(TRUE))

C31_MissingCredentialIsFatal ==
    [][\A invoices \in Batches :
          (/\ run'[1] # run[1]
           /\ run'[1] = StartStep(World(1), invoices, FALSE).run)
             => /\ mongo' = mongo
                /\ drive' = drive
                /\ run'[1].processed = <<>>
                /\ run'[1].pc = "raised"]_vars

\* how often file f occurs in a list of file ids
Occurrences(ids, f) == Cardinality({i \in 1..Len(ids) : ids[i] = f})

\* how often file f is among the skipped entries of the run of worker 1
SkippedCount(f) ==
    Cardinality({i \in 1..Len(run[1].skipped) : run[1].skipped[i].file_id = f})

\* the result of a run that had a credential accounts for every candidate once
AccountsForEveryCandidate ==
    (run[1].pc = "done" /\ run[1].load # "none") =>
        /\ Len(run[1].processed) + Len(run[1].skipped) = Len(run[1].batch)
        /\ \A f \in Files :
              Occurrences(run[1].processed, f) + SkippedCount(f)
                  = Occurrences(run[1].batch, f)
        /\ \A i \in 1..Len(run[1].skipped) :
              run[1].skipped[i].reason \in
                  {"already completed (DB)", "already processing",
                   "download failed", "ocr failed"}

\* a file enters processed only in the step in which its OCR gave a payload,
\* and OCR is reached only by the step in which its download succeeded
ProcessedAfterDownloadAndOcr ==
    /\ (run'[1].processed # run[1].processed /\ ~ Returned(1))
          => /\ run[1].pc = "ocr"
             /\ [run |-> run'[1], mongo |-> mongo', drive |-> drive']
                    = OcrStep(World(1), "payload", 1)
    /\ (run'[1].pc = "ocr" /\ run[1].pc # "ocr")
          => /\ run[1].pc = "download"
             /\ [run |-> run'[1], mongo |-> mongo', drive |-> drive']
                    = DownloadStep(World(1), TRUE)

\* C32: the result of process_vendor_invoices with a credential accounts for
\* every candidate exactly once, in processed or in skipped with a reason, so
\* len(processed) + len(skipped) is the number of candidates; and a file enters
\* processed only when its download and its OCR succeeded in this run.
C32_EveryCandidateAccountedOnce ==
    /\ []AccountsForEveryCandidate
    /\ [][ProcessedAfterDownloadAndOcr]_vars

\* a run returned with one file processed and the other skipped
C32_Witness ==
    /\ run[1].pc = "done"
    /\ run[1].load # "none"
    /\ Len(run[1].batch) = 2
    /\ Len(run[1].processed) = 1
    /\ Len(run[1].skipped) = 1
    /\ run[1].skipped[1].reason = "ocr failed"

\* the records of file f in a list of records
RecordsOf(records, f) ==
    {records[i] : i \in {k \in 1..Len(records) : records[k].drive_file_id = f}}

\* the loop is at its head with a candidate whose document is PROCESSING
AtInFlightCandidate ==
    /\ run[1].pc = "check"
    /\ run[1].invoices # <<>>
    /\ mongo[Head(run[1].invoices)].ocrStatus = "PROCESSING"

\* the step on such a candidate is the skip and nothing else; and while the
\* run lasts, a file that was skipped so and is listed once is not processed,
\* keeps its document and keeps its records in the vendor list
InFlightCandidateSkipped ==
    /\ (AtInFlightCandidate /\ run'[1] # run[1])
          => /\ run'[1] = [run[1] EXCEPT
                              !.invoices = Tail(@),
                              !.skipped = Append(@, Skip("already processing",
                                                         Head(run[1].invoices)))]
             /\ mongo' = mongo
             /\ drive' = drive
             /\ statusStore' = statusStore
    /\ \A i \in 1..Len(run[1].skipped) :
          LET f == run[1].skipped[i].file_id
          IN  (/\ run[1].skipped[i].reason = "already processing"
               /\ Occurrences(run[1].batch, f) = 1
               /\ ~ Returned(1))
                 => /\ run'[1].cur # f
                    /\ Occurrences(run'[1].processed, f) = 0
                    /\ mongo'[f] = mongo[f]
                    /\ RecordsOf(run'[1].master_records, f)
                           = RecordsOf(run[1].loaded, f)

\* C33: a candidate whose document is stored as PROCESSING is skipped with
\* reason "already processing"; the run downloads nothing and runs no OCR for
\* it and leaves its status, its error log and its record in the vendor list
\* unchanged.
C33_InFlightCandidateSkipped == [][InFlightCandidateSkipped]_vars

\* a run skipped the one candidate it was given as already processing
C33_Witness ==
    /\ run[1].pc = "done"
    /\ run[1].batch = <<"f1">>
    /\ run[1].skipped = <<Skip("already processing", "f1")>>
    /\ mongo["f1"].ocrStatus = "PROCESSING"

(***************************************************************************)
(* C34: get_analytics windows the monthly trend by period over the         *)
(* chronologically sorted month buckets of the user's invoice chunks:      *)
(* month keeps the latest bucket, quarter the latest 3, year the latest    *)
(* 12, any other period all of them, and the value of a bucket is the sum  *)
(* of the amounts of the user's invoices dated in that month.              *)
(***************************************************************************)
InvoicesOfUser(c, user_id) ==
    {e \in Entries(c) : e.user_id = user_id /\ e.type = "invoice"}

InvoicesDated(c, user_id, m) ==
    {e \in InvoicesOfUser(c, user_id) : month_of(e.invoice_date) = m}

BucketsOf(c, user_id) ==
    {m \in 1..(MaxMonths + 1) : InvoicesDated(c, user_id, m) # {}}

WindowSize(period, buckets) ==
    CASE period = "month" -> 1
      [] period = "quarter" -> 3
      [] period = "year" -> 12
      [] OTHER -> Cardinality(buckets)

\* the buckets with fewer than WindowSize later buckets
LatestBuckets(period, buckets) ==
    {m \in buckets :
        Cardinality({y \in buckets : y > m}) < WindowSize(period, buckets)}

C34_TrendWindowedByPeriod ==
    (analytics.op = "get_analytics" /\ analytics.success)
        => LET trend == analytics.monthlyTrend
               buckets == BucketsOf(vstore, analytics.user_id)
           IN  /\ {trend[i].name : i \in DOMAIN trend}
                     = LatestBuckets(analytics.period, buckets)
               /\ \A i, j \in DOMAIN trend : i < j => trend[i].name < trend[j].name
               /\ \A i \in DOMAIN trend :
                     trend[i].value
                       = SpendOf(InvoicesDated(vstore, analytics.user_id, trend[i].name))

(***************************************************************************)
(* C35: in the report of get_analytics the vendor list is sorted by total  *)
(* spend in non-increasing order, the total of a vendor is the sum of the  *)
(* amounts of the user's invoice chunks for that vendor, highestSpend is a *)
(* vendor with the largest total, totalSpend is the sum of the vendor      *)
(* totals and totalInvoices is the number of the user's invoice chunks.    *)
(***************************************************************************)
InvoicesOfVendor(c, user_id, vendor_name) ==
    {e \in InvoicesOfUser(c, user_id) : e.vendor_name = vendor_name}

RankedTotalsAreSums ==
    LET ranked == analytics.topVendors
    IN  /\ \A i, j \in DOMAIN ranked : i < j => ranked[i].value >= ranked[j].value
        /\ \A i, j \in DOMAIN ranked : i # j => ranked[i].name # ranked[j].name
        /\ \A i \in DOMAIN ranked :
              ranked[i].value
                = SpendOf(InvoicesOfVendor(vstore, analytics.user_id, ranked[i].name))
        /\ \A e \in InvoicesOfUser(vstore, analytics.user_id) :
              \E i \in DOMAIN ranked : ranked[i].name = e.vendor_name
        /\ \E i \in DOMAIN ranked :
              /\ analytics.highestSpend = [vendor |-> ranked[i].name,
                                           amount |-> ranked[i].value]
              /\ \A j \in DOMAIN ranked : ranked[i].value >= ranked[j].value
        /\ analytics.totalSpend = SpendOf(InvoicesOfUser(vstore, analytics.user_id))

C35_RankingAndTotals ==
    (analytics.op = "get_analytics" /\ analytics.success)
        => /\ RankedTotalsAreSums
           /\ analytics.totalInvoices
                 = Cardinality(InvoicesOfUser(vstore, analytics.user_id))

(***************************************************************************)
(* C36: a run of process_vendor_invoices loses no record: when the run is  *)
(* about to save, every record of the master.json in the folder whose      *)
(* drive_file_id the run did not process is in the list the run saves,     *)
(* unchanged, also when the load at the start of the run failed.           *)
(***************************************************************************)
ProcessedIds(p) == {run[p].processed[i] : i \in 1..Len(run[p].processed)}

C36_RunKeepsExistingRecords ==
    run[1].pc = "upload" =>
        \A i \in DOMAIN drive :
            \A j \in DOMAIN drive[i] :
                drive[i][j].drive_file_id \notin ProcessedIds(1)
                    => InSeq(drive[i][j], run[1].master_records)

(***************************************************************************)
(* C37: status scans are scoped to the requesting user: the status records *)
(* that retry_failed_invoices, get_processing_status and                   *)
(* get_status_summary select for user X, with or without a vendor filter,  *)
(* all have the user_id X, and every candidate a retry for X hands to the  *)
(* pipeline is a file of a record of X in a folder of X.                   *)
(***************************************************************************)
C37_StatusScansScopedToUser ==
    lastCall.op \in {"retry", "status", "summary"} =>
        /\ \A r \in lastCall.selected : r.user_id = lastCall.user_id
        /\ \A c \in lastCall.batches :
              /\ c.invoice_folder_id = FolderOf(lastCall.user_id, c.vendor_name)
              /\ \E q \in RecordsOfUser(statusFiles, lastCall.user_id) :
                    q[2].drive_file_id = c.drive_file_id

(***************************************************************************)
(* C38: the purge of user X removes only the data of X: a purge that       *)
(* succeeds leaves no chunk with user_id X, every purge leaves the chunks  *)
(* of the other users and the documents of the other users as they were,   *)
(* and it sets indexed to false on the COMPLETED documents of X and on no  *)
(* other document, so that the next sync of X lists all of them.           *)
(***************************************************************************)
CompletedOf(docs) == {f \in Files : docs[f].ocrStatus = "COMPLETED"}

PurgeRemovesOnlyOwnData ==
    lastSync'.op = "delete" =>
        LET x == lastSync'.user_id
        IN  /\ (lastSync'.outcome = "deleted"
                   => \A e \in Entries(vstore') : e.user_id # x)
            /\ DOMAIN vstore' \subseteq DOMAIN vstore
            /\ \A id \in DOMAIN vstore :
                  vstore[id].user_id # x
                      => (id \in DOMAIN vstore' /\ vstore'[id] = vstore[id])
            /\ \A u \in Users \ {x} : mongo'[u] = mongo[u]
            /\ \A f \in Files :
                  mongo'[x][f] = IF f \in CompletedOf(mongo[x])
                                 THEN [mongo[x][f] EXCEPT !.indexed = FALSE]
                                 ELSE mongo[x][f]
            /\ get_unindexed_documents(mongo'[x]) = CompletedOf(mongo[x])

MarkedBySync(x) ==
    {f \in Files : ~ mongo[x][f].indexed /\ mongo'[x][f].indexed}

RecordsWithId(master, f) ==
    {i \in 1..Len(master) : master[i].drive_file_id = f}

MarkedDocumentsHaveChunks ==
    lastSync'.op = "sync" =>
        LET x == lastSync'.user_id
        IN  \A f \in MarkedBySync(x) :
               /\ \E e \in Entries(vstore') :
                     /\ e.type = "invoice"
                     /\ e.user_id = x
                     /\ e.drive_file_id = f
               /\ RecordsWithId(drive[x], f) # {}
               /\ \A i \in RecordsWithId(drive[x], f) :
                     \A j \in 1..Len(drive[x]) :
                        drive[x][j].invoice_number = drive[x][i].invoice_number
                            => drive[x][j].drive_file_id = f

C39_MarkedDocumentsHaveChunks == [][MarkedDocumentsHaveChunks]_vars

(***************************************************************************)
(* C40: every document that completes OCR is eventually indexed:           *)
(* update_ocr_status(COMPLETED) leaves the document with indexed = false,  *)
(* a sync lists every document that is COMPLETED and not indexed, and when *)
(* syncs keep being triggered and their external calls succeed, a document *)
(* that is COMPLETED and not indexed is indexed later on.                  *)
(***************************************************************************)
CompletedStartsUnindexed ==
    \A f \in Files :
        LET docs == mongo[PipelineUser]
            after == update_ocr_status(docs, f, "COMPLETED")
        IN  /\ docs[f].ocrStatus # "ABSENT" => ~ after[f].indexed
            /\ get_unindexed_documents(docs)
                  = {g \in Files : docs[g].ocrStatus = "COMPLETED" /\ ~ docs[g].indexed}

PendingIndex(f) ==
    /\ mongo[PipelineUser][f].ocrStatus = "COMPLETED"
    /\ ~ mongo[PipelineUser][f].indexed

C40_CompletedEventuallyIndexed ==
    /\ []CompletedStartsUnindexed
    /\ \A f \in Files : PendingIndex(f) ~> mongo[PipelineUser][f].indexed

====
